---- MODULE Spec2Model ----
(***************************************************************************)
(* Model of the bloody-falcon signal pipeline:                             *)
(*   normalize -> score -> correlate -> escalate -> write outputs ->       *)
(*   persist_run                                                           *)
(*                                                                         *)
(* Strings are sequences of lexemes (TLA+ strings).  A lexeme is the unit  *)
(* at which the code's matching, splitting and replacing can cut in the    *)
(* inputs of this model: a word, a separator, a number, or a fixed note.   *)
(* Byte order of strings is the lexicographic order of the lexemes by      *)
(* TokOrder, which lists the lexemes in ascending byte order.              *)
(***************************************************************************)
EXTENDS Integers, Sequences, FiniteSets, TLC

VARIABLES
  pc,         \* position of the run: which stage comes next
  scope,      \* the parsed Scope
  cfg,        \* the RunConfig
  env,        \* BF_FIXED_TIME, GITHUB_SHA, GIT_HASH
  clock,      \* the wall clock (Utc::now)
  raw,        \* the input of the stage under study (fixture, arguments)
  window,     \* the RunWindow of the run
  signals,    \* the in-memory signal batch
  evidence,   \* the in-memory evidence sidecar
  findings,   \* the in-memory findings
  files,      \* ReportPaths: the written files and the detectors reported
  manifests,  \* the manifests returned by the finished runs
  db,         \* the tables runs, signals, findings
  prev,       \* the batch as it was before the last stage changed it
  tx,         \* the open transaction of the store: its uncommitted tables
  trend       \* the TrendReport last computed

vars == <<pc, scope, cfg, env, clock, raw, window, signals, evidence,
          findings, files, manifests, db, prev, tx, trend>>

----------------------------------------------------------------------------
(* Bounds of the model *)

MaxRuns == 2
MaxBatch == 2
MaxInd == 3
MaxGroup == 3
MaxSorted == 4
MaxStored == 2
TicksPerDay == 2

----------------------------------------------------------------------------
(* Strings *)

\* Lexemes in ascending byte order: ' ' < ''' < ',' < '-' < '.' < digits <
\* ':' < ';' < upper case < '[' < lower case < '|'.
TokOrder ==
  << " ", " typosquat without corroboration", " | ", "#", "'", ",", "-", ".",
     "0", "1", "10", "180", "2", "200", "29", "30", "31", "400",
     ":", "; ",
     "; confidence capped at 60; severity capped at Medium; digest-only",
     "Consider takedown if abusive", "Generated typosquat candidate",
     "Impersonation", "MentionSpike", "NewCert",
     "Review domain registration and hosting", "SPAM", "TYPOSQUAT",
     "TyposquatDomain",
     "[REDACTED]",
     "a", "b", "billing", "com", "ct_log", "d exceeds ",
     "d)", "d; confidence capped; prefer digest", "decay:temporal",
     "ev1", "ev2", "ev_", "exampl3", "example",
     "finding_", "fixture",
     "generic-token", "github", "impersonation_mention_spike",
     "landing_similarity", "login", "manual",
     "negative keyword match: ", "offline", "other", "policy: domain age ",
     "policy: temporal decay applied (", "policy_flag:",
     "prefer_digest:old_domain",
     "rdap_age_days=", "replay", "review", "s1", "s2", "secret", "secure", "sig_",
     "spam", "support", "suppressed: ", "suppressed: negative keyword match '",
     "suppressed:generic_token", "suppressed:negative_keyword",
     "typosquat", "typosquat_newcert_landing", "z", "|" >>

Rank(t) == CHOOSE i \in 1..Len(TokOrder) : TokOrder[i] = t

RECURSIVE StrLess(_, _)
\* String::cmp, as "a < b"
StrLess(a, b) ==
  IF a = <<>> THEN b # <<>>
  ELSE IF b = <<>> THEN FALSE
  ELSE IF Head(a) = Head(b) THEN StrLess(Tail(a), Tail(b))
  ELSE Rank(Head(a)) < Rank(Head(b))

RECURSIVE InsertBy(_, _, _)
\* insert x after every element whose key is <= key(x): stable
InsertBy(Less(_, _), s, x) ==
  IF s = <<>> THEN <<x>>
  ELSE IF Less(x, Head(s)) THEN <<x>> \o s
  ELSE <<Head(s)>> \o InsertBy(Less, Tail(s), x)

RECURSIVE SortBy(_, _)
\* slice::sort / sort_by: a stable sort
SortBy(Less(_, _), s) ==
  IF s = <<>> THEN <<>>
  ELSE InsertBy(Less, SortBy(Less, SubSeq(s, 1, Len(s) - 1)), s[Len(s)])

SortStrs(s) == SortBy(StrLess, s)

IsSortedBy(Less(_, _), s) ==
  \A i \in 1..(Len(s) - 1) : ~Less(s[i + 1], s[i])

RECURSIVE Join(_, _)
\* [String]::join(sep)
Join(s, sep) ==
  IF s = <<>> THEN <<>>
  ELSE IF Len(s) = 1 THEN s[1]
  ELSE s[1] \o sep \o Join(Tail(s), sep)

IsPrefix(p, s) == Len(p) <= Len(s) /\ SubSeq(s, 1, Len(p)) = p

\* str::contains
Contains(hay, needle) ==
  \E i \in 0..(Len(hay) - Len(needle)) :
     SubSeq(hay, i + 1, i + Len(needle)) = needle

RECURSIVE ReplaceAll(_, _, _)
\* Regex::replace_all for a pattern that matches one literal: leftmost,
\* non-overlapping matches, each replaced by rep
ReplaceAll(s, pat, rep) ==
  IF s = <<>> \/ pat = <<>> THEN s
  ELSE IF IsPrefix(pat, s)
       THEN rep \o ReplaceAll(SubSeq(s, Len(pat) + 1, Len(s)), pat, rep)
       ELSE <<Head(s)>> \o ReplaceAll(Tail(s), pat, rep)

\* char::to_lowercase on a lexeme
LowerTok(t) ==
  CASE t = "SPAM" -> "spam"
    [] t = "TYPOSQUAT" -> "typosquat"
    [] t = "Generated typosquat candidate" -> "generated typosquat candidate"
    [] t = "[REDACTED]" -> "[redacted]"
    [] OTHER -> t

\* str::to_lowercase
ToLower(s) == [i \in 1..Len(s) |-> LowerTok(s[i])]

\* str::trim: leading and trailing white space removed
RECURSIVE TrimStart(_)
TrimStart(s) ==
  IF s # <<>> /\ Head(s) = " " THEN TrimStart(Tail(s)) ELSE s

RECURSIVE TrimEnd(_)
TrimEnd(s) ==
  IF s # <<>> /\ s[Len(s)] = " " THEN TrimEnd(SubSeq(s, 1, Len(s) - 1)) ELSE s

Trim(s) == TrimStart(TrimEnd(s))

Range(s) == {s[i] : i \in 1..Len(s)}

\* Vec::dedup on a sorted vector: consecutive duplicates removed
RECURSIVE Dedup(_)
Dedup(s) ==
  IF Len(s) <= 1 THEN s
  ELSE IF s[1] = s[2] THEN Dedup(Tail(s))
  ELSE <<s[1]>> \o Dedup(Tail(s))

Count(s, x) == Cardinality({i \in 1..Len(s) : s[i] = x})

\* str::eq_ignore_ascii_case
eq_ignore_ascii_case(a, b) == ToLower(a) = ToLower(b)

None == [some |-> FALSE, val |-> <<>>]
Some(v) == [some |-> TRUE, val |-> v]

\* Option::unwrap_or_default for an optional list
unwrap_or_default(o) == IF o.some THEN o.val ELSE <<>>

----------------------------------------------------------------------------
(* core/types.rs *)

SignalTypes == {"Impersonation", "TyposquatDomain", "NewCert", "ExposureCode",
                "ExposurePaste", "MentionSpike", "ThreatFeedMatch"}

Severities == {"Low", "Medium", "High", "Critical"}

Dispositions == {"Alert", "Investigate", "Digest", "Suppressed"}

\* u8
U8Max == 255

SaturatingSub(a, b) == IF a >= b THEN a - b ELSE 0

SaturatingAdd(a, b) == IF a + b > U8Max THEN U8Max ELSE a + b

Min(a, b) == IF a <= b THEN a ELSE b

Max(a, b) == IF a >= b THEN a ELSE b

----------------------------------------------------------------------------
(* core/time.rs *)

NoTime == -1

\* now_utc without the BF_FIXED_TIME override
now_utc_wall_clock == clock

\* now_utc: BF_FIXED_TIME when it is set and parses, else the wall clock
now_utc == IF env.fixed_time # NoTime THEN env.fixed_time ELSE clock

\* run_window: [now, now + 1s]; the second is below the model's resolution
run_window == [start |-> now_utc, end |-> now_utc]

\* Duration::num_days: whole days, truncated toward zero
NumDays(d) == IF d >= 0 THEN d \div TicksPerDay ELSE -((-d) \div TicksPerDay)

----------------------------------------------------------------------------
(* core/hash.rs *)

\* sha256_hex: the digest is represented by its preimage behind a marker,
\* which makes it collision free; the order of digests is the order of these
\* representations
sha256_hex(bytes) == <<"#">> \o bytes

\* stable_signal_id without ordered.sort()
stable_signal_id_unsorted(signal_type, subject, evidence_ref, indicators) ==
  LET buf == <<signal_type, "|">> \o subject \o <<"|">> \o evidence_ref
             \o <<"|">> \o Join(indicators, <<",">>)
  IN <<"sig_">> \o sha256_hex(buf)

stable_signal_id(signal_type, subject, evidence_ref, indicators) ==
  LET ordered == SortStrs(indicators)
      buf == <<signal_type, "|">> \o subject \o <<"|">> \o evidence_ref
             \o <<"|">> \o Join(ordered, <<",">>)
  IN <<"sig_">> \o sha256_hex(buf)

dedupe_key(signal_type, subject, indicators) ==
  LET ordered == SortStrs(indicators)
  IN <<signal_type, ":">> \o subject \o <<":">> \o Join(ordered, <<",">>)

\* an environment variable that is not set
Unset == "<unset>"

\* GITHUB_SHA, else GIT_HASH, else "unknown"
git_hash ==
  IF env.github_sha # Unset THEN env.github_sha
  ELSE IF env.git_hash # Unset THEN env.git_hash
  ELSE "unknown"

----------------------------------------------------------------------------
(* core/scope.rs *)

\* Result::Ok(())
Ok == "Ok"

\* Scope::sanitize_for_demo
sanitize_for_demo(sc) ==
  [sc EXCEPT !.allowed_sources = << <<"fixture">>, <<"offline">> >>,
             !.allowed_detectors = << <<"typosquat">> >>]

\* Scope::validate without the allowed_sources test
validate_sources_optional(sc, demo_safe) ==
  IF demo_safe
  THEN IF /\ ~sc.privacy.store_raw
          /\ sc.privacy.redact_patterns = <<>>
          /\ (sc.domains # <<>> \/ sc.brand_terms # <<>>)
       THEN "privacy.store_raw=false requires redact_patterns when scope includes data"
       ELSE Ok
  ELSE IF sc.domains = <<>> /\ sc.brand_terms = <<>>
       THEN "scope must include domains or brand_terms"
  ELSE IF sc.allowed_detectors = <<>>
       THEN "scope must include allowed_detectors"
  ELSE IF ~sc.privacy.store_raw /\ sc.privacy.redact_patterns = <<>>
       THEN "privacy.store_raw=false requires redact_patterns to avoid raw data retention"
  ELSE Ok

\* Scope::validate: Ok, or the message of the error
validate(sc, demo_safe) ==
  IF demo_safe
  THEN IF /\ ~sc.privacy.store_raw
          /\ sc.privacy.redact_patterns = <<>>
          /\ (sc.domains # <<>> \/ sc.brand_terms # <<>>)
       THEN "privacy.store_raw=false requires redact_patterns when scope includes data"
       ELSE Ok
  ELSE IF sc.domains = <<>> /\ sc.brand_terms = <<>>
       THEN "scope must include domains or brand_terms"
  ELSE IF sc.allowed_sources = <<>>
       THEN "scope must include allowed_sources"
  ELSE IF sc.allowed_detectors = <<>>
       THEN "scope must include allowed_detectors"
  ELSE IF ~sc.privacy.store_raw /\ sc.privacy.redact_patterns = <<>>
       THEN "privacy.store_raw=false requires redact_patterns to avoid raw data retention"
  ELSE Ok

----------------------------------------------------------------------------
(* pipeline/normalizer.rs *)

RECURSIVE redact_text(_, _)
redact_text(input, patterns) ==
  IF patterns = <<>> THEN input
  ELSE redact_text(ReplaceAll(input, Head(patterns), <<"[REDACTED]">>),
                   Tail(patterns))

normalize_signal(sig, sc, now) ==
  LET inds == SortBy(StrLess, sig.indicators)
      ev   == IF sig.evidence_ref = <<>>
              THEN <<"ev_">> \o stable_signal_id(sig.signal_type, sig.subject,
                                                 <<>>, inds)
              ELSE sig.evidence_ref
      id   == IF sig.id = <<>>
              THEN stable_signal_id(sig.signal_type, sig.subject, ev, inds)
              ELSE sig.id
      dk   == IF sig.dedupe_key = <<>>
              THEN dedupe_key(sig.signal_type, sig.subject, inds)
              ELSE sig.dedupe_key
      ts   == IF sig.timestamp = 0 THEN now ELSE sig.timestamp
      s1   == [sig EXCEPT !.indicators = inds, !.evidence_ref = ev, !.id = id,
                          !.dedupe_key = dk, !.timestamp = ts]
      pats == sc.privacy.redact_patterns
  IN IF ~sc.privacy.store_raw /\ pats # <<>>
     THEN [s1 EXCEPT
             !.indicators = [i \in 1..Len(inds) |-> redact_text(inds[i], pats)],
             !.rationale = redact_text(@, pats),
             !.recommended_actions =
                [i \in 1..Len(@) |-> redact_text(@[i], pats)]]
     ELSE s1

IdLess(a, b) == StrLess(a.id, b.id)

\* normalize_signals without signals.sort_by
normalize_signals_input_order(sigs, sc, now) ==
  LET normed == [i \in 1..Len(sigs) |-> normalize_signal(sigs[i], sc, now)]
      evs == [i \in 1..Len(sigs) |->
                [id |-> normed[i].evidence_ref,
                 source |-> normed[i].source,
                 observed_at |-> normed[i].timestamp,
                 url |-> None,
                 note |-> None,
                 redacted |-> ~sc.privacy.store_raw]]
  IN [signals |-> normed, evidence |-> SortBy(IdLess, evs)]

\* normalize_signals: the pair (signals, evidence)
normalize_signals(sigs, sc, now) ==
  LET normed == [i \in 1..Len(sigs) |-> normalize_signal(sigs[i], sc, now)]
      evs == [i \in 1..Len(sigs) |->
                [id |-> normed[i].evidence_ref,
                 source |-> normed[i].source,
                 observed_at |-> normed[i].timestamp,
                 url |-> None,
                 note |-> None,
                 redacted |-> ~sc.privacy.store_raw]]
  IN [signals |-> SortBy(IdLess, normed), evidence |-> SortBy(IdLess, evs)]

----------------------------------------------------------------------------
(* pipeline/scorer.rs *)

default_confidence(signal_type) ==
  CASE signal_type = "TyposquatDomain" -> 60
    [] signal_type = "ExposureCode" -> 70
    [] signal_type = "ExposurePaste" -> 70
    [] signal_type = "Impersonation" -> 55
    [] signal_type = "NewCert" -> 50
    [] signal_type = "MentionSpike" -> 40
    [] signal_type = "ThreatFeedMatch" -> 75

default_severity(signal_type) ==
  CASE signal_type \in {"ExposurePaste", "ThreatFeedMatch"} -> "High"
    [] signal_type = "MentionSpike" -> "Low"
    [] OTHER -> "Medium"

\* the numbers that occur as decimal text in the inputs of the model
Numbers == {0, 1, 2, 10, 29, 30, 31, 180, 200, 400}

\* str::parse::<i64>
ParseI64(s) ==
  IF Len(s) = 1 /\ \E n \in Numbers : ToString(n) = s[1]
  THEN Some(CHOOSE n \in Numbers : ToString(n) = s[1])
  ELSE None

\* the lower-case alphanumeric words of one lexeme
WordsOf(t) ==
  CASE t \in {" ", " | ", "-", ".", ",", ":", "|", "'", "#", "; "} -> <<>>
    [] t = "[REDACTED]" -> <<"redacted">>
    [] t = "rdap_age_days=" -> <<"rdap", "age", "days">>
    [] t = "landing_similarity" -> <<"landing", "similarity">>
    [] t = "ct_log" -> <<"ct", "log">>
    [] OTHER -> <<LowerTok(t)>>

RECURSIVE UpTo(_, _)
\* the part of s before the first occurrence of the lexeme t
UpTo(s, t) ==
  IF s = <<>> \/ Head(s) = t THEN <<>> ELSE <<Head(s)>> \o UpTo(Tail(s), t)

RECURSIVE WordList(_)
WordList(s) ==
  IF s = <<>> THEN <<>>
  ELSE LET w == WordsOf(Head(s))
       IN [i \in 1..Len(w) |-> <<w[i]>>] \o WordList(Tail(s))

\* sld_tokens: the lower-cased alphanumeric runs of the leftmost label
sld_tokens(domain) == WordList(UpTo(domain, "."))

is_generic_typosquat_with(generic, subject, candidate) ==
  LET base == sld_tokens(subject)
      cand_tokens == SelectSeq(sld_tokens(candidate),
                               LAMBDA t : t \notin Range(base))
  IN IF cand_tokens = <<>> THEN FALSE
     ELSE \A i \in 1..Len(cand_tokens) : cand_tokens[i] \in Range(generic)

\* scorer::is_generic_typosquat
scorer_is_generic_typosquat(subject, candidate, sc) ==
  is_generic_typosquat_with(sc.policy.typosquat.generic_tokens,
                            subject, candidate)

RdapAge(ind) ==
  LET v == ToLower(ind)
  IN IF IsPrefix(<<"rdap_age_days=">>, v)
     THEN ParseI64(SubSeq(v, 2, Len(v)))
     ELSE None

has_ct_marker(v) ==
  Contains(v, <<"ct_cert">>) \/ Contains(v, <<"ct_log">>)
     \/ Contains(v, <<"new_cert">>)

has_landing_marker(v) ==
  Contains(v, <<"landing_similarity">>) \/ Contains(v, <<"favicon_similarity">>)

\* scorer::has_corroboration taking a domain age of any size as corroboration
scorer_has_corroboration_any_age(indicators) ==
  \E i \in 1..Len(indicators) :
     LET v == ToLower(indicators[i])
     IN \/ RdapAge(indicators[i]).some
        \/ has_ct_marker(v)
        \/ has_landing_marker(v)

\* scorer::has_corroboration
scorer_has_corroboration(indicators) ==
  \E i \in 1..Len(indicators) :
     LET v == ToLower(indicators[i])
     IN \/ (RdapAge(indicators[i]).some /\ RdapAge(indicators[i]).val < 30)
        \/ has_ct_marker(v)
        \/ has_landing_marker(v)

\* indicator_age_days: the first indicator rdap_age_days=<N> that parses
indicator_age_days(indicators) ==
  LET hits == {i \in 1..Len(indicators) : RdapAge(indicators[i]).some}
  IN IF hits = {} THEN None
     ELSE RdapAge(indicators[CHOOSE i \in hits : \A j \in hits : i <= j])

AppendNote(rationale, note) ==
  IF Contains(rationale, note) THEN rationale
  ELSE rationale \o <<" | ">> \o note

PushFlag(flags, flag) ==
  IF \E i \in 1..Len(flags) : flags[i] = flag THEN flags
  ELSE Append(flags, flag)

GenericNote ==
  << "suppressed: ", "generic-token", " typosquat without corroboration",
     "; confidence capped at 60; severity capped at Medium; digest-only" >>

GenericReason == << "generic-token", " typosquat without corroboration" >>

apply_typosquat_tuning(sig, sc) ==
  LET candidate == IF sig.indicators = <<>> THEN <<>> ELSE sig.indicators[1]
      generic_only == scorer_is_generic_typosquat(sig.subject, candidate, sc)
      corroborated == scorer_has_corroboration(sig.indicators)
      s1 == IF generic_only /\ ~corroborated
            THEN [sig EXCEPT
                    !.confidence = IF @ > 60 THEN 60 ELSE @,
                    !.severity = IF @ \in {"High", "Critical"}
                                 THEN "Medium" ELSE @,
                    !.rationale = AppendNote(@, GenericNote),
                    !.suppression_reason = Some(GenericReason),
                    !.policy_flags = PushFlag(@, <<"suppressed:generic_token">>)]
            ELSE sig
      age == indicator_age_days(s1.indicators)
      max_days == sc.policy.typosquat.old_domain_days
      note == << "policy: domain age ", ToString(age.val), "d exceeds ",
                 ToString(max_days), "d; confidence capped; prefer digest" >>
  IN IF sig.signal_type # "TyposquatDomain" \/ candidate = <<>> THEN sig
     ELSE IF age.some /\ age.val > max_days
     THEN [s1 EXCEPT
             !.confidence = IF @ > 50 THEN 50 ELSE @,
             !.severity = IF @ \in {"High", "Critical"} THEN "Medium" ELSE @,
             !.rationale = AppendNote(@, note),
             !.policy_flags = PushFlag(@, <<"prefer_digest:old_domain">>)]
     ELSE s1

\* the first negative keyword that is not blank and occurs in the haystack
FirstKeywordHit(sig, sc) ==
  LET hay == ToLower(sig.subject \o <<" ">> \o sig.rationale \o <<" ">>
                     \o Join(sig.indicators, <<" ">>))
      kws == sc.negative_keywords
      hits == {i \in 1..Len(kws) :
                 Trim(kws[i]) # <<>> /\ Contains(hay, ToLower(kws[i]))}
  IN IF hits = {} THEN 0 ELSE CHOOSE i \in hits : \A j \in hits : i <= j

\* apply_negative_keyword_filter setting the confidence to 20 on a match
apply_negative_keyword_filter_set20(sig, sc) ==
  LET hit == FirstKeywordHit(sig, sc)
      keyword == sc.negative_keywords[hit]
      note == <<"suppressed: negative keyword match '">> \o keyword \o <<"'">>
  IN IF hit = 0 THEN sig
     ELSE [sig EXCEPT
             !.confidence = 20,
             !.severity = "Low",
             !.rationale = AppendNote(@, note),
             !.suppression_reason =
                Some(<<"negative keyword match: ">> \o keyword),
             !.policy_flags = PushFlag(@, <<"suppressed:negative_keyword">>)]

apply_negative_keyword_filter(sig, sc) ==
  LET hit == FirstKeywordHit(sig, sc)
      keyword == sc.negative_keywords[hit]
      note == <<"suppressed: negative keyword match '">> \o keyword \o <<"'">>
  IN IF hit = 0 THEN sig
     ELSE [sig EXCEPT
             !.confidence = Min(@, 20),
             !.severity = "Low",
             !.rationale = AppendNote(@, note),
             !.suppression_reason =
                Some(<<"negative keyword match: ">> \o keyword),
             !.policy_flags = PushFlag(@, <<"suppressed:negative_keyword">>)]

\* apply_temporal_decay with the floor of 20 applied as a floor of 30
apply_temporal_decay_floor30(sig, now) ==
  LET age == now - sig.timestamp
      decayed == SaturatingSub(sig.confidence, 10)
      note == << "policy: temporal decay applied (", ToString(NumDays(age)),
                 "d)" >>
  IN IF NumDays(age) <= 30 THEN sig
     ELSE IF decayed < sig.confidence
     THEN [sig EXCEPT
             !.confidence = Max(decayed, 30),
             !.rationale = AppendNote(@, note),
             !.policy_flags = PushFlag(@, <<"decay:temporal">>)]
     ELSE sig

apply_temporal_decay(sig, now) ==
  LET age == now - sig.timestamp
      decayed == SaturatingSub(sig.confidence, 10)
      note == << "policy: temporal decay applied (", ToString(NumDays(age)),
                 "d)" >>
  IN IF NumDays(age) <= 30 THEN sig
     ELSE IF decayed < sig.confidence
     THEN [sig EXCEPT
             !.confidence = Max(decayed, 20),
             !.rationale = AppendNote(@, note),
             !.policy_flags = PushFlag(@, <<"decay:temporal">>)]
     ELSE sig

score_signal(sig, sc, now) ==
  LET s1 == IF sig.confidence = 0
            THEN [sig EXCEPT !.confidence = default_confidence(sig.signal_type)]
            ELSE sig
      s2 == IF s1.severity \in Severities THEN s1
            ELSE [s1 EXCEPT !.severity = default_severity(s1.signal_type)]
      s3 == apply_negative_keyword_filter(s2, sc)
      s4 == apply_temporal_decay(s3, now)
  IN apply_typosquat_tuning(s4, sc)

score_signals(sigs, sc, now) ==
  [i \in 1..Len(sigs) |-> score_signal(sigs[i], sc, now)]

----------------------------------------------------------------------------
(* pipeline/correlator.rs *)

\* the subjects of a batch in ascending order (the keys of the BTreeMap)
SubjectsOf(sigs) ==
  Dedup(SortStrs([i \in 1..Len(sigs) |-> sigs[i].subject]))

has_landing_indicator(indicators) ==
  \E i \in 1..Len(indicators) : has_landing_marker(ToLower(indicators[i]))

has_ct_indicator(indicators) ==
  \E i \in 1..Len(indicators) : has_ct_marker(ToLower(indicators[i]))

has_young_domain(indicators) ==
  \E i \in 1..Len(indicators) :
     RdapAge(indicators[i]).some /\ RdapAge(indicators[i]).val < 30

\* correlator::has_corroboration looking at the indicators only
has_corroboration_indicators_only(sigs) ==
  \E i \in 1..Len(sigs) :
     \/ has_ct_indicator(sigs[i].indicators)
     \/ has_young_domain(sigs[i].indicators)

\* correlator::has_corroboration
has_corroboration(sigs) ==
  \E i \in 1..Len(sigs) :
     \/ sigs[i].signal_type = "NewCert"
     \/ has_ct_indicator(sigs[i].indicators)
     \/ has_young_domain(sigs[i].indicators)

LocalGenericTokens ==
  << <<"login">>, <<"secure">>, <<"support">>, <<"billing">>, <<"account">>,
     <<"verify">> >>

\* correlator::is_generic_typosquat
is_generic_typosquat(subject, candidate) ==
  is_generic_typosquat_with(LocalGenericTokens, subject, candidate)

IdsOf(sigs) == [i \in 1..Len(sigs) |-> sigs[i].id]

sorted_signal_ids(sigs) == SortStrs(IdsOf(sigs))

finding_id(rule, sigs) ==
  <<"finding_">> \o sha256_hex(<<rule, "|">> \o Join(SortStrs(IdsOf(sigs)),
                                                     <<",">>))

RECURSIVE MaxOf(_)
MaxOf(s) == IF s = <<>> THEN 0 ELSE Max(Head(s), MaxOf(Tail(s)))

max_confidence(sigs) == MaxOf([i \in 1..Len(sigs) |-> sigs[i].confidence])

\* add_confidence with an addition that wraps around at the width of u8
add_confidence_wrapping(base, bonus) == Min((base + bonus) % (U8Max + 1), 100)

add_confidence(base, bonus) == Min(SaturatingAdd(base, bonus), 100)

RECURSIVE Flatten(_)
Flatten(ss) == IF ss = <<>> THEN <<>> ELSE Head(ss) \o Flatten(Tail(ss))

\* aggregate_suppression_reason dropping every reason of a corroborated
\* subject
aggregate_suppression_reason_drop_all(sigs, subject_corroborated) ==
  LET all == [i \in 1..Len(SelectSeq(sigs, LAMBDA x : x.suppression_reason.some))
                |-> SelectSeq(sigs, LAMBDA x : x.suppression_reason.some)[i]
                       .suppression_reason.val]
      kept == IF subject_corroborated THEN <<>> ELSE all
      reasons == Dedup(SortStrs(kept))
  IN IF reasons = <<>> THEN None ELSE Some(Join(reasons, <<"; ">>))

aggregate_suppression_reason(sigs, subject_corroborated) ==
  LET all == [i \in 1..Len(SelectSeq(sigs, LAMBDA x : x.suppression_reason.some))
                |-> SelectSeq(sigs, LAMBDA x : x.suppression_reason.some)[i]
                       .suppression_reason.val]
      kept == IF subject_corroborated
              THEN SelectSeq(all, LAMBDA r : ~Contains(r, <<"generic-token">>))
              ELSE all
      reasons == Dedup(SortStrs(kept))
  IN IF reasons = <<>> THEN None ELSE Some(Join(reasons, <<"; ">>))

\* the rule trace with the contributors' policy flags appended
append_policy_flags(rule_trace, sigs) ==
  LET flags == Dedup(SortStrs(Flatten([i \in 1..Len(sigs) |->
                                         sigs[i].policy_flags])))
  IN rule_trace \o [i \in 1..Len(flags) |-> <<"policy_flag:">> \o flags[i]]

MakeFinding(rule, title, contributing, bonus, severity, rationale, trace, subject_corroborated) ==
  [id |-> finding_id(rule, contributing),
   title |-> title,
   signals |-> sorted_signal_ids(contributing),
   confidence |-> add_confidence(max_confidence(contributing), bonus),
   severity |-> severity,
   rationale |-> rationale,
   rule_trace |-> append_policy_flags(trace, contributing),
   disposition |-> "Digest",
   policy_gates |-> <<>>,
   blocked_by |-> None,
   suppression_reason |->
      aggregate_suppression_reason(contributing, subject_corroborated)]

\* the eligibility filter without the test for a candidate
eligible_any_candidate(subject, typos, subject_corroborated) ==
  SelectSeq(typos, LAMBDA x :
     \/ x.indicators = <<>>
     \/ ~is_generic_typosquat(subject, x.indicators[1])
     \/ subject_corroborated)

\* the typosquat signals of a group that rule R1 counts
eligible(subject, typos, subject_corroborated) ==
  SelectSeq(typos, LAMBDA x :
     /\ x.indicators # <<>>
     /\ x.indicators[1] # <<>>
     /\ (~is_generic_typosquat(subject, x.indicators[1])
           \/ subject_corroborated))

\* the findings of one subject group, in the order the loop body pushes them
GroupFindings(subject, sigs) ==
  LET typos == SelectSeq(sigs, LAMBDA x : x.signal_type = "TyposquatDomain")
      new_certs == SelectSeq(sigs, LAMBDA x : x.signal_type = "NewCert")
      impersonations ==
         SelectSeq(sigs, LAMBDA x : x.signal_type = "Impersonation")
      mention_spikes ==
         SelectSeq(sigs, LAMBDA x : x.signal_type = "MentionSpike")
      landing_signals ==
         SelectSeq(sigs, LAMBDA x : has_landing_indicator(x.indicators))
      subject_corroborated == has_corroboration(sigs)
      eligible_typos == eligible(subject, typos, subject_corroborated)
      r1 == IF eligible_typos # <<>> /\ new_certs # <<>>
               /\ landing_signals # <<>>
            THEN << MakeFinding("typosquat_newcert_landing",
                      <<"Potential impersonation infrastructure for ">>
                         \o subject,
                      eligible_typos \o new_certs \o landing_signals, 25,
                      "High",
                      <<"Typosquat domain observed alongside new certificate and landing similarity.">>,
                      << <<"rule:typosquat_newcert_landing">>,
                         <<"confidence:+25 (typosquat + new cert + landing similarity)">>,
                         <<"severity:high">> >>,
                      subject_corroborated) >>
            ELSE <<>>
      r2 == IF impersonations # <<>> /\ mention_spikes # <<>>
            THEN << MakeFinding("impersonation_mention_spike",
                      <<"Impersonation signals with mention spike for ">>
                         \o subject,
                      impersonations \o mention_spikes, 15,
                      "Medium",
                      <<"Impersonation indicators corroborated by mention spike.">>,
                      << <<"rule:impersonation_mention_spike">>,
                         <<"confidence:+15 (impersonation + mention spike)">>,
                         <<"severity:medium">> >>,
                      subject_corroborated) >>
            ELSE <<>>
  IN r1 \o r2

\* correlate_signals returning the findings in the order of the groups
correlate_signals_group_order(sigs) ==
  LET subjects == SubjectsOf(sigs)
      groups == [i \in 1..Len(subjects) |->
                   GroupFindings(subjects[i],
                      SelectSeq(sigs, LAMBDA x : x.subject = subjects[i]))]
  IN Flatten(groups)

correlate_signals(sigs) ==
  LET subjects == SubjectsOf(sigs)
      groups == [i \in 1..Len(subjects) |->
                   GroupFindings(subjects[i],
                      SelectSeq(sigs, LAMBDA x : x.subject = subjects[i]))]
  IN SortBy(IdLess, Flatten(groups))

----------------------------------------------------------------------------
(* pipeline/escalator.rs *)

severity_rank(sev) ==
  CASE sev = "Low" -> 0
    [] sev = "Medium" -> 1
    [] sev = "High" -> 2
    [] sev = "Critical" -> 3

blocked_by(sev_ok, conf_ok) ==
  CASE ~sev_ok /\ ~conf_ok ->
          <<"policy: severity and confidence below thresholds">>
    [] ~sev_ok /\ conf_ok -> <<"policy: severity below threshold">>
    [] sev_ok /\ ~conf_ok -> <<"policy: confidence below threshold">>
    [] sev_ok /\ conf_ok -> <<"policy: none">>

\* finding_has_policy_flag looking for the bare flag
finding_has_policy_flag_bare(finding, flag) ==
  \E i \in 1..Len(finding.rule_trace) : Trim(finding.rule_trace[i]) = flag

finding_has_policy_flag(finding, flag) ==
  LET needle == <<"policy_flag:">> \o flag
  IN \E i \in 1..Len(finding.rule_trace) :
        Trim(finding.rule_trace[i]) = needle

\* escalate_finding testing the alert thresholds before the suppression
escalate_finding_alert_first(finding, sc) ==
  LET min_conf == sc.policy.min_confidence_alert
      min_sev == sc.policy.min_severity_alert
      sev_ok == severity_rank(finding.severity) >= severity_rank(min_sev)
      conf_ok == finding.confidence >= min_conf
      gates == << <<"min_severity_alert=", min_sev, " (actual=",
                    finding.severity, ")">>,
                  <<"min_confidence_alert=", ToString(min_conf), " (actual=",
                    ToString(finding.confidence), ")">> >>
      f1 == [finding EXCEPT !.policy_gates = gates]
  IN IF sev_ok /\ conf_ok
     THEN [f1 EXCEPT !.disposition = "Alert", !.blocked_by = None]
     ELSE IF f1.suppression_reason.some
     THEN [f1 EXCEPT !.disposition = "Suppressed",
                     !.blocked_by = Some(<<"suppressed: ">>
                                         \o f1.suppression_reason.val)]
     ELSE IF finding_has_policy_flag(f1, <<"prefer_digest:old_domain">>)
     THEN [f1 EXCEPT !.disposition = "Digest",
                     !.blocked_by =
                        Some(<<"policy: typosquat.old_domain_days">>)]
     ELSE IF f1.severity = "Medium" \/ f1.severity = "High"
     THEN [f1 EXCEPT !.disposition = "Investigate",
                     !.blocked_by = Some(blocked_by(sev_ok, conf_ok))]
     ELSE [f1 EXCEPT !.disposition = "Digest",
                     !.blocked_by = Some(blocked_by(sev_ok, conf_ok))]

escalate_finding(finding, sc) ==
  LET min_conf == sc.policy.min_confidence_alert
      min_sev == sc.policy.min_severity_alert
      sev_ok == severity_rank(finding.severity) >= severity_rank(min_sev)
      conf_ok == finding.confidence >= min_conf
      gates == << <<"min_severity_alert=", min_sev, " (actual=",
                    finding.severity, ")">>,
                  <<"min_confidence_alert=", ToString(min_conf), " (actual=",
                    ToString(finding.confidence), ")">> >>
      f1 == [finding EXCEPT !.policy_gates = gates]
  IN IF f1.suppression_reason.some
     THEN [f1 EXCEPT !.disposition = "Suppressed",
                     !.blocked_by = Some(<<"suppressed: ">>
                                         \o f1.suppression_reason.val)]
     ELSE IF finding_has_policy_flag(f1, <<"prefer_digest:old_domain">>)
     THEN [f1 EXCEPT !.disposition = "Digest",
                     !.blocked_by =
                        Some(<<"policy: typosquat.old_domain_days">>)]
     ELSE IF sev_ok /\ conf_ok
     THEN [f1 EXCEPT !.disposition = "Alert", !.blocked_by = None]
     ELSE IF f1.severity = "Medium" \/ f1.severity = "High"
     THEN [f1 EXCEPT !.disposition = "Investigate",
                     !.blocked_by = Some(blocked_by(sev_ok, conf_ok))]
     ELSE [f1 EXCEPT !.disposition = "Digest",
                     !.blocked_by = Some(blocked_by(sev_ok, conf_ok))]

escalate_findings(fs, sc) ==
  SortBy(IdLess, [i \in 1..Len(fs) |-> escalate_finding(fs[i], sc)])

----------------------------------------------------------------------------
(* pipeline/reporter.rs *)

NoFile == [exists |-> FALSE, content |-> <<>>]

File(content) == [exists |-> TRUE, content |-> content]

\* write_evidence_jsonl clearing the note but not the url
written_evidence_row_keeps_url(ev, sc) ==
  IF ~sc.privacy.store_raw
  THEN [ev EXCEPT !.note = None, !.redacted = TRUE]
  ELSE ev

\* the row write_evidence_jsonl serializes for an in-memory row
written_evidence_row(ev, sc) ==
  IF ~sc.privacy.store_raw
  THEN [ev EXCEPT !.note = None, !.url = None, !.redacted = TRUE]
  ELSE ev

\* write_evidence_jsonl: the in-memory rows after the call, and the lines
write_evidence_jsonl(evs, sc) ==
  LET sorted == SortBy(IdLess, evs)
  IN [memory |-> sorted,
      lines |-> [i \in 1..Len(sorted) |-> written_evidence_row(sorted[i], sc)]]

\* write_signals_output for the formats that serialize the signals whole
write_signals_output(sigs, format) ==
  [format |-> format, records |-> SortBy(IdLess, sigs)]

\* hash_file: the digest of a file stands for its content
hash_file(file) == [sha256 |-> file.content]

----------------------------------------------------------------------------
(* cli/config.rs, cli/commands.rs *)

config_hash(c) ==
  [sha256 |-> [command |-> c.command, demo_safe |-> c.demo_safe,
               no_network |-> c.no_network, format |-> c.format,
               output |-> c.output, manifest |-> c.manifest,
               detectors |-> unwrap_or_default(c.detectors),
               sources |-> unwrap_or_default(c.sources),
               trend_window |-> c.trend_window]]

scope_hash(sc) == [sha256 |-> sc]

stable_run_id(m) == [sha256 |-> m]

LexemeLess(a, b) == Rank(a) < Rank(b)

\* the Manifest value persist_run builds from the written files
build_manifest(fs, detectors, sc, c, win) ==
  [version |-> "0.2.0",
   git_hash |-> git_hash,
   scope_hash |-> scope_hash(sc),
   config_hash |-> config_hash(c),
   detector_list |-> SortBy(LexemeLess, detectors),
   run_window_start |-> win.start,
   run_window_end |-> win.end,
   evidence_hash |-> hash_file(fs.evidence),
   output_hash |-> hash_file(fs.output)]

----------------------------------------------------------------------------
(* detectors/typosquat.rs, pipeline/collector.rs *)

\* the position of the last '.', 0 when there is none (str::rsplit_once)
LastDot(s) ==
  LET dots == {i \in 1..Len(s) : s[i] = "."}
  IN IF dots = {} THEN 0 ELSE CHOOSE i \in dots : \A j \in dots : j <= i

permutations(domain) ==
  LET k == LastDot(domain)
      sld == SubSeq(domain, 1, k - 1)
      tld == SubSeq(domain, k + 1, Len(domain))
      out == IF k > 0
             THEN << sld \o <<"-", "secure", ".">> \o tld,
                     sld \o <<"-", "login", ".">> \o tld,
                     sld \o <<"-", "support", ".">> \o tld,
                     sld \o <<"-", "billing", ".">> \o tld,
                     <<"secure", "-">> \o sld \o <<".">> \o tld,
                     <<"login", "-">> \o sld \o <<".">> \o tld >>
             ELSE << domain \o <<"-", "secure">>, domain \o <<"-", "login">> >>
  IN Dedup(SortStrs(out))

\* TyposquatDetector::name
TyposquatName == <<"typosquat">>

\* TyposquatDetector::sources
TyposquatSources == <<"Offline">>

\* the Signal TyposquatDetector::run makes of one candidate
typosquat_signal(domain, candidate, win) ==
  [id |-> <<>>, signal_type |-> "TyposquatDomain", subject |-> domain,
   source |-> <<"typosquat">>, evidence_ref |-> <<>>,
   timestamp |-> win.start, indicators |-> <<candidate>>, confidence |-> 0,
   severity |-> "Medium", rationale |-> <<"Generated typosquat candidate">>,
   recommended_actions |-> << <<"Review domain registration and hosting">>,
                              <<"Consider takedown if abusive">> >>,
   dedupe_key |-> <<>>, tags |-> << <<"typosquat">> >>,
   suppression_reason |-> None, policy_flags |-> <<>>]

\* TyposquatDetector::run
typosquat_run(sc, win) ==
  Flatten([i \in 1..Len(sc.domains) |->
             LET cands == permutations(sc.domains[i])
             IN [j \in 1..Len(cands) |->
                   typosquat_signal(sc.domains[i], cands[j], win)]])

\* enforce_no_network: Ok, or the message of the error
enforce_no_network(no_network, sources) ==
  IF no_network /\ \E i \in 1..Len(sources) : sources[i] # "Offline"
  THEN "no-network mode forbids detector"
  ELSE Ok

\* collect_signals: the error, or the signals and the detectors used
collect_signals(sc, no_network, win, detectors_filter) ==
  LET chosen == IF detectors_filter.some THEN detectors_filter.val
                ELSE sc.allowed_detectors
      filter == [i \in 1..Len(chosen) |-> ToLower(chosen[i])]
      gate == enforce_no_network(no_network, TyposquatSources)
  IN IF TyposquatName \in Range(filter)
     THEN IF gate # Ok
          THEN [result |-> gate, signals |-> <<>>, detectors |-> <<>>]
          ELSE [result |-> Ok, signals |-> typosquat_run(sc, win),
                detectors |-> TyposquatName]
     ELSE [result |-> Ok, signals |-> <<>>, detectors |-> <<>>]

----------------------------------------------------------------------------
(* cli/commands.rs: run *)

\* some name of the list equals the name, ASCII case ignored
AnyIgnoreCase(list, name) ==
  \E i \in 1..Len(list) : eq_ignore_ascii_case(list[i], name)

\* some requested name is not in the list
SomeOutside(requested, list) ==
  /\ requested.some
  /\ \E i \in 1..Len(requested.val) : ~AnyIgnoreCase(list, requested.val[i])

\* enforce_scope_filters without the tests against the scope's allow-lists
enforce_scope_filters_demo_only(c, sc) ==
  IF ~c.demo_safe /\ sc.allowed_detectors = <<>>
  THEN "scope must include allowed_detectors"
  ELSE IF ~c.demo_safe /\ sc.allowed_sources = <<>>
  THEN "scope must include allowed_sources"
  ELSE IF c.demo_safe /\ SomeOutside(c.detectors, << <<"typosquat">> >>)
  THEN "detector not allowed in demo-safe"
  ELSE IF c.demo_safe
          /\ SomeOutside(c.sources, << <<"fixture">>, <<"offline">> >>)
  THEN "source not allowed in demo-safe"
  ELSE Ok

\* enforce_scope_filters: Ok, or the message of the error
enforce_scope_filters(c, sc) ==
  IF ~c.demo_safe /\ sc.allowed_detectors = <<>>
  THEN "scope must include allowed_detectors"
  ELSE IF ~c.demo_safe /\ sc.allowed_sources = <<>>
  THEN "scope must include allowed_sources"
  ELSE IF c.demo_safe /\ SomeOutside(c.detectors, << <<"typosquat">> >>)
  THEN "detector not allowed in demo-safe"
  ELSE IF c.demo_safe
          /\ SomeOutside(c.sources, << <<"fixture">>, <<"offline">> >>)
  THEN "source not allowed in demo-safe"
  ELSE IF SomeOutside(c.detectors, sc.allowed_detectors)
  THEN "detector not allowed by scope"
  ELSE IF SomeOutside(c.sources, sc.allowed_sources)
  THEN "source not allowed by scope"
  ELSE Ok

----------------------------------------------------------------------------
(* core/store.rs *)

EmptyDb == [runs |-> {}, signals |-> {}, findings |-> {}]

\* no transaction is open
NoTx == [open |-> FALSE, work |-> EmptyDb, step |-> 0]

\* no trend report has been computed
NoTrend ==
  [window_start |-> NoTime, window_end |-> NoTime, by_signal_type |-> <<>>,
   by_subject |-> <<>>, by_dedupe_key |-> <<>>]

\* INSERT OR REPLACE keyed by the primary key
Upsert(rows, key(_), row) == {r \in rows : key(r) # key(row)} \cup {row}

RunKey(r) == r.run_id

RowKey(r) == r.id

RECURSIVE UpsertAll_delete_on_conflict(_, _)
\* a replace that deletes the row in conflict and inserts the new row only
\* where there was none
UpsertAll_delete_on_conflict(rows, new) ==
  IF new = <<>> THEN rows
  ELSE UpsertAll_delete_on_conflict(
          IF \E r \in rows : RowKey(r) = RowKey(Head(new))
          THEN {r \in rows : RowKey(r) # RowKey(Head(new))}
          ELSE rows \cup {Head(new)},
          Tail(new))

RECURSIVE UpsertAll(_, _)
UpsertAll(rows, new) ==
  IF new = <<>> THEN rows
  ELSE UpsertAll(Upsert(rows, RowKey, Head(new)), Tail(new))

signal_row(run_id, sig) ==
  [id |-> sig.id, run_id |-> run_id, dedupe_key |-> sig.dedupe_key,
   signal_type |-> sig.signal_type, subject |-> sig.subject,
   source |-> sig.source, evidence_ref |-> sig.evidence_ref,
   confidence |-> sig.confidence, severity |-> sig.severity,
   timestamp |-> sig.timestamp, data_json |-> sig]

finding_row(run_id, f) ==
  [id |-> f.id, run_id |-> run_id, severity |-> f.severity,
   confidence |-> f.confidence, rationale |-> f.rationale, data_json |-> f]

RECURSIVE InsertOrIgnoreAll(_, _)
\* INSERT OR IGNORE keyed by the primary key: a row in conflict is kept
InsertOrIgnoreAll(rows, new) ==
  IF new = <<>> THEN rows
  ELSE InsertOrIgnoreAll(
          IF \E r \in rows : RowKey(r) = RowKey(Head(new))
          THEN rows
          ELSE rows \cup {Head(new)},
          Tail(new))

\* store_run writing the signals and the findings with INSERT OR IGNORE
store_run_insert_or_ignore(d, run_id, m, sigs, fnds) ==
  [runs |-> Upsert(d.runs, RunKey,
              [run_id |-> run_id, started_at |-> m.run_window_start,
               ended_at |-> m.run_window_end, scope_hash |-> m.scope_hash,
               config_hash |-> m.config_hash, manifest_json |-> m]),
   signals |-> InsertOrIgnoreAll(d.signals,
                 [i \in 1..Len(sigs) |-> signal_row(run_id, sigs[i])]),
   findings |-> InsertOrIgnoreAll(d.findings,
                  [i \in 1..Len(fnds) |-> finding_row(run_id, fnds[i])])]

\* Store::store_run: the tables after the transaction has committed
store_run(d, run_id, m, sigs, fnds) ==
  [runs |-> Upsert(d.runs, RunKey,
              [run_id |-> run_id, started_at |-> m.run_window_start,
               ended_at |-> m.run_window_end, scope_hash |-> m.scope_hash,
               config_hash |-> m.config_hash, manifest_json |-> m]),
   signals |-> UpsertAll(d.signals,
                 [i \in 1..Len(sigs) |-> signal_row(run_id, sigs[i])]),
   findings |-> UpsertAll(d.findings,
                  [i \in 1..Len(fnds) |-> finding_row(run_id, fnds[i])])]

\* purge_older_than deleting the runs started at the cutoff as well
purge_older_than_inclusive(d, retention_days, now) ==
  LET cutoff == now - retention_days * TicksPerDay
      old == {r.run_id : r \in {x \in d.runs : x.started_at <= cutoff}}
  IN IF retention_days = 0 THEN d
     ELSE [runs |-> {r \in d.runs : r.started_at > cutoff},
           signals |-> {r \in d.signals : r.run_id \notin old},
           findings |-> {r \in d.findings : r.run_id \notin old}]

\* Store::purge_older_than
purge_older_than(d, retention_days, now) ==
  LET cutoff == now - retention_days * TicksPerDay
      old == {r.run_id : r \in {x \in d.runs : x.started_at < cutoff}}
  IN IF retention_days = 0 THEN d
     ELSE [runs |-> {r \in d.runs : r.started_at >= cutoff},
           signals |-> {r \in d.signals : r.run_id \notin old},
           findings |-> {r \in d.findings : r.run_id \notin old}]

\* the tables after the first n statements of store_run have been executed
\* inside the transaction: the run row, then the signals, then the findings
store_run_partial(d, run_id, m, sigs, fnds, n) ==
  IF n = 0 THEN d
  ELSE store_run(d, run_id, m,
                 SubSeq(sigs, 1, Min(n - 1, Len(sigs))),
                 SubSeq(fnds, 1, Max(0, n - 1 - Len(sigs))))

\* the number of statements store_run executes
store_run_statements(sigs, fnds) == 1 + Len(sigs) + Len(fnds)

\* a connection that commits every statement by itself
uncommitted_view_autocommit(committed, work) == work

\* what the database file holds while the transaction of store_run is open:
\* the statements executed on tx become visible at tx.commit() only
uncommitted_view(committed, work) == committed

\* signals_in_window with the end of the window included
signals_in_window_closed(d, start, end) ==
  {r.data_json : r \in {x \in d.signals :
                          x.timestamp >= start /\ x.timestamp <= end}}

\* Store::signals_in_window (the RFC 3339 texts of UTC times compare as the
\* times do)
signals_in_window(d, start, end) ==
  {r.data_json : r \in {x \in d.signals :
                          x.timestamp >= start /\ x.timestamp < end}}

\* Store::all_signals
all_signals(d) == {r.data_json : r \in d.signals}

\* the three key functions trend_report hands to build_trend_buckets
trend_key(kind, sig) ==
  CASE kind = "signal_type" -> <<sig.signal_type>>
    [] kind = "subject" -> sig.subject
    [] kind = "dedupe_key" -> sig.dedupe_key

RECURSIVE SortedKeys(_)
\* the keys of a BTreeSet in ascending order
SortedKeys(S) ==
  IF S = {} THEN <<>>
  ELSE LET least == CHOOSE k \in S : \A other \in S \ {k} : StrLess(k, other)
       IN <<least>> \o SortedKeys(S \ {least})

MinTime(S) == CHOOSE t \in S : \A u \in S : t <= u

MaxTime(S) == CHOOSE t \in S : \A u \in S : t >= u

build_trend_buckets(current, previous, all, window_start, kind) ==
  LET keys == SortedKeys({trend_key(kind, x) : x \in current \cup previous})
      bucket(key) ==
         LET count == Cardinality({x \in current : trend_key(kind, x) = key})
             prev_count ==
                Cardinality({x \in previous : trend_key(kind, x) = key})
             seen == {x.timestamp : x \in {y \in all : trend_key(kind, y) = key}}
         IN [key |-> key, count |-> count, prev_count |-> prev_count,
             delta |-> count - prev_count,
             first_seen |-> IF seen = {} THEN None ELSE Some(MinTime(seen)),
             last_seen |-> IF seen = {} THEN None ELSE Some(MaxTime(seen)),
             first_seen_in_window |->
                IF seen = {} THEN FALSE ELSE MinTime(seen) >= window_start]
  IN [i \in 1..Len(keys) |-> bucket(keys[i])]

\* Store::trend_report (the summary lines are left out)
trend_report(d, window_ticks, now) ==
  LET end == now
      start == end - window_ticks
      prev_end == start
      prev_start == start - window_ticks
      current == signals_in_window(d, start, end)
      previous == signals_in_window(d, prev_start, prev_end)
      all == all_signals(d)
  IN [window_start |-> start, window_end |-> end,
      by_signal_type |->
         build_trend_buckets(current, previous, all, start, "signal_type"),
      by_subject |->
         build_trend_buckets(current, previous, all, start, "subject"),
      by_dedupe_key |->
         build_trend_buckets(current, previous, all, start, "dedupe_key")]

----------------------------------------------------------------------------
(* Inputs *)

\* BF_FIXED_TIME of the replay test, in ticks since the epoch
FixedNow == 40 * TicksPerDay

Example == <<"example", ".", "com">>
SecretCom == <<"secret", ".", "com">>
ExampleLogin == <<"example", "-", "login", ".", "com">>
Exampl3 == <<"exampl3", ".", "com">>
Landing == <<"landing_similarity">>
CtLog == <<"ct_log">>
Rdap(n) == <<"rdap_age_days=", ToString(n)>>

\* a raw signal as a detector or a fixture line delivers it
RawSignal(type, subject, inds, conf, sev, ts, rationale) ==
  [id |-> <<>>, signal_type |-> type, subject |-> subject,
   source |-> <<"fixture">>, evidence_ref |-> <<>>, timestamp |-> ts,
   indicators |-> inds, confidence |-> conf, severity |-> sev,
   rationale |-> rationale, recommended_actions |-> << <<"review">> >>,
   dedupe_key |-> <<>>, tags |-> <<>>, suppression_reason |-> None,
   policy_flags |-> <<>>]

DefaultGenericTokens ==
  << <<"login">>, <<"secure">>, <<"support">>, <<"billing">>, <<"account">>,
     <<"verify">> >>

\* a Scope as Scope::from_raw builds it
MakeScope(store_raw, patterns, keywords, min_conf, min_sev, old_days, keep) ==
  [brand_terms |-> << <<"example">> >>,
   domains |-> << Example >>,
   allowed_sources |-> << <<"fixture">> >>,
   allowed_detectors |-> << <<"typosquat">> >>,
   negative_keywords |-> keywords,
   privacy |-> [store_raw |-> store_raw, redact_patterns |-> patterns,
                max_evidence_retention_days |-> keep],
   policy |-> [min_confidence_alert |-> min_conf,
               min_severity_alert |-> min_sev,
               typosquat |-> [generic_tokens |-> DefaultGenericTokens,
                              old_domain_days |-> old_days]]]

ReplayCfg(format) ==
  [command |-> "Replay", demo_safe |-> FALSE, no_network |-> TRUE,
   format |-> format, output |-> "out", manifest |-> "out/manifest.json",
   detectors |-> None, sources |-> None, trend_window |-> ""]

\* sequences over S of length 1..n
RECURSIVE SeqsUpTo(_, _)
SeqsUpTo(S, n) ==
  IF n = 0 THEN {<<>>}
  ELSE LET shorter == SeqsUpTo(S, n - 1)
       IN shorter \cup {Append(q, x) : q \in shorter, x \in S}

Batches(S, n) == SeqsUpTo(S, n) \ {<<>>}

\* the fixture lines of the replay runs
FixtureSignals ==
  { RawSignal("TyposquatDomain", Example, <<Landing, Exampl3>>, 90, "High",
              FixedNow, <<"a">>),
    RawSignal("TyposquatDomain", Example, <<ExampleLogin>>, 90, "High",
              0, <<"a">>),
    RawSignal("TyposquatDomain", Example, <<Exampl3, Landing, Rdap(400)>>, 90,
              "High", FixedNow, <<"a">>),
    RawSignal("NewCert", Example, <<CtLog>>, 0, "Medium", FixedNow, <<"b">>),
    RawSignal("Impersonation", Example, << <<"a">>, <<"secret">> >>, 70,
              "Medium", FixedNow, <<"spam">>),
    RawSignal("MentionSpike", Example, <<>>, 200, "Critical",
              FixedNow - 31 * TicksPerDay, <<"secret", " ", "a">>),
    RawSignal("Impersonation", SecretCom, << <<"secret">> >>, 85, "High",
              FixedNow, <<"a">>),
    [RawSignal("MentionSpike", SecretCom, <<>>, 85, "Low", FixedNow, <<"b">>)
       EXCEPT !.id = <<"s1">>, !.evidence_ref = <<"ev1">>,
              !.source = <<"manual">>] }

PipelineScopes ==
  { MakeScope(TRUE, <<>>, <<>>, 80, "High", 180, 30),
    MakeScope(FALSE, << <<"secret">> >>, << <<"SPAM">> >>, 80, "High", 180,
              30),
    MakeScope(FALSE, << <<"secret">> >>, <<>>, 60, "Medium", 180, 0) }

PipelineEnvs ==
  { [fixed_time |-> FixedNow, github_sha |-> "test-hash",
     git_hash |-> "test-hash"],
    [fixed_time |-> NoTime, github_sha |-> Unset, git_hash |-> "local"] }

NoSignals == <<>>

----------------------------------------------------------------------------
(* cli/commands.rs: run_replay_with_config, one action per stage *)

\* run_window(); load_fixture_signals
LoadFixture ==
  /\ pc = "start"
  /\ window' = run_window
  /\ signals' = raw
  /\ pc' = "loaded"
  /\ UNCHANGED <<scope, cfg, env, clock, raw, evidence, findings, files,
                 manifests, db, prev, tx, trend>>

Normalize ==
  /\ pc = "loaded"
  /\ LET r == normalize_signals(signals, scope, now_utc)
     IN /\ signals' = r.signals
        /\ evidence' = r.evidence
  /\ pc' = "normalized"
  /\ UNCHANGED <<scope, cfg, env, clock, raw, window, findings, files,
                 manifests, db, prev, tx, trend>>

Score ==
  /\ pc = "normalized"
  /\ signals' = score_signals(signals, scope, now_utc)
  /\ prev' = signals
  /\ pc' = "scored"
  /\ UNCHANGED <<scope, cfg, env, clock, raw, window, evidence, findings,
                 files, manifests, db, tx, trend>>

Correlate ==
  /\ pc = "scored"
  /\ findings' = correlate_signals(signals)
  /\ pc' = "correlated"
  /\ UNCHANGED <<scope, cfg, env, clock, raw, window, signals, evidence,
                 files, manifests, db, prev, tx, trend>>

Escalate ==
  /\ pc = "correlated"
  /\ findings' = escalate_findings(findings, scope)
  /\ pc' = "escalated"
  /\ UNCHANGED <<scope, cfg, env, clock, raw, window, signals, evidence,
                 files, manifests, db, prev, tx, trend>>

\* write_outputs: evidence.jsonl, then the signals output; the detectors are
\* those of the collection in a scan and "replay" in a replay
WriteOutputs ==
  /\ pc = "escalated"
  /\ LET w == write_evidence_jsonl(evidence, scope)
     IN /\ evidence' = w.memory
        /\ files' = [files EXCEPT
                       !.evidence = File(w.lines),
                       !.output = File(write_signals_output(signals,
                                                            cfg.format)),
                       !.detectors = IF cfg.command = "Scan"
                                     THEN files.detectors
                                     ELSE <<"replay">>]
  /\ pc' = "written"
  /\ UNCHANGED <<scope, cfg, env, clock, raw, window, signals, findings,
                 manifests, db, prev, tx, trend>>

\* persist_run: manifest, manifest.json, store_run, purge_older_than
PersistRun ==
  /\ pc = "written"
  /\ LET m == build_manifest(files, files.detectors, scope, cfg, window)
         stored == store_run(db, stable_run_id(m), m, signals, findings)
     IN /\ files' = [files EXCEPT !.manifest = File(m)]
        /\ db' = purge_older_than(stored,
                    scope.privacy.max_evidence_retention_days, now_utc)
        /\ manifests' = Append(manifests, m)
  /\ pc' = "done"
  /\ UNCHANGED <<scope, cfg, env, clock, raw, window, signals, evidence,
                 findings, prev, tx, trend>>

\* the same command is run again: a new process, the files and the database
\* of the earlier run are still there, the wall clock may have moved on
NextRun ==
  /\ pc = "done"
  /\ Len(manifests) < MaxRuns
  /\ clock' \in {clock, clock + 1}
  /\ signals' = NoSignals
  /\ evidence' = <<>>
  /\ findings' = <<>>
  /\ prev' = <<>>
  /\ pc' = "start"
  /\ UNCHANGED <<scope, cfg, env, raw, window, files, manifests, db, tx,
                 trend>>

NoFiles ==
  [evidence |-> NoFile, output |-> NoFile, manifest |-> NoFile,
   detectors |-> <<>>]

NoWindow == [start |-> NoTime, end |-> NoTime]

Init ==
  /\ pc = "start"
  /\ scope \in PipelineScopes
  /\ cfg \in {ReplayCfg("Jsonl"), ReplayCfg("Json")}
  /\ env \in PipelineEnvs
  /\ clock = FixedNow + 1
  /\ raw \in Batches(FixtureSignals, MaxBatch)
  /\ window = NoWindow
  /\ signals = NoSignals
  /\ evidence = <<>>
  /\ findings = <<>>
  /\ files = NoFiles
  /\ manifests = <<>>
  /\ db = EmptyDb
  /\ tx = NoTx
  /\ trend = NoTrend
  /\ prev = <<>>

Next ==
  \/ LoadFixture
  \/ Normalize
  \/ Score
  \/ Correlate
  \/ Escalate
  \/ WriteOutputs
  \/ PersistRun
  \/ NextRun

Spec == Init /\ [][Next]_vars

----------------------------------------------------------------------------
(* core/hash.rs on its own: the identifiers of an indicator list and of a   *)
(* permutation of it                                                        *)

Perms(L) ==
  LET n == Len(L)
      bij == {f \in [1..n -> 1..n] : \A i, j \in 1..n : f[i] = f[j] => i = j}
  IN {[i \in 1..n |-> L[f[i]]] : f \in bij}

HashIndicators == { <<"a">>, <<"b">>, Exampl3, <<"a", "-", "b">> }

InitHash ==
  /\ pc = "hash"
  /\ raw \in {[signal_type |-> t, subject |-> su, evidence_ref |-> e,
               indicators |-> L, permuted |-> P] :
                t \in {"TyposquatDomain", "NewCert"},
                su \in {Example, SecretCom},
                e \in {<<>>, <<"ev1">>},
                L \in SeqsUpTo(HashIndicators, MaxInd),
                P \in SeqsUpTo(HashIndicators, MaxInd)}
  /\ raw.permuted \in Perms(raw.indicators)
  /\ scope = MakeScope(TRUE, <<>>, <<>>, 80, "High", 180, 30)
  /\ cfg = ReplayCfg("Jsonl")
  /\ env \in PipelineEnvs
  /\ clock = FixedNow + 1
  /\ window = NoWindow
  /\ signals = NoSignals
  /\ evidence = <<>>
  /\ findings = <<>>
  /\ files = NoFiles
  /\ manifests = <<>>
  /\ db = EmptyDb
  /\ tx = NoTx
  /\ trend = NoTrend
  /\ prev = <<>>

\* stable_signal_id and dedupe_key of both lists
HashIds ==
  /\ pc = "hash"
  /\ prev' = [id |-> stable_signal_id(raw.signal_type, raw.subject,
                                      raw.evidence_ref, raw.indicators),
              id_permuted |-> stable_signal_id(raw.signal_type, raw.subject,
                                      raw.evidence_ref, raw.permuted),
              key |-> dedupe_key(raw.signal_type, raw.subject,
                                 raw.indicators),
              key_permuted |-> dedupe_key(raw.signal_type, raw.subject,
                                          raw.permuted)]
  /\ pc' = "hashed"
  /\ UNCHANGED <<scope, cfg, env, clock, raw, window, signals, evidence,
                 findings, files, manifests, db, tx, trend>>

NextHash == HashIds

SpecHash == InitHash /\ [][NextHash]_vars

----------------------------------------------------------------------------
(* pipeline/normalizer.rs on its own: normalize_signals, then               *)
(* normalize_signals again on what it returned                              *)

NormSignals ==
  { [RawSignal("Impersonation", Example, inds, 70, "Medium", ts,
               <<"secret", " ", "a">>)
       EXCEPT !.id = id, !.evidence_ref = ev, !.source = src,
              !.dedupe_key = dk] :
      inds \in { << <<"b">>, <<"a">> >>, << <<"a">>, <<"secret">> >> },
      dk \in { <<>>, <<"a">> },
      id \in { <<>>, <<"s1">> },
      ev \in { <<>>, <<"ev1">> },
      src \in { <<"fixture">>, <<"manual">> },
      ts \in { 0, FixedNow - TicksPerDay } }

NormScopes ==
  { MakeScope(TRUE, <<>>, <<>>, 80, "High", 180, 30),
    MakeScope(FALSE, << <<"secret">> >>, <<>>, 80, "High", 180, 30) }

InitNorm ==
  /\ pc = "loaded"
  /\ raw \in Batches(NormSignals, MaxBatch)
  /\ signals = raw
  /\ scope \in NormScopes
  /\ cfg = ReplayCfg("Jsonl")
  /\ env \in PipelineEnvs
  /\ clock = FixedNow + 1
  /\ window = NoWindow
  /\ evidence = <<>>
  /\ findings = <<>>
  /\ files = NoFiles
  /\ manifests = <<>>
  /\ db = EmptyDb
  /\ tx = NoTx
  /\ trend = NoTrend
  /\ prev = <<>>

\* normalize_signals applied to the signals normalize_signals returned
NormalizeAgain ==
  /\ pc = "normalized"
  /\ LET r == normalize_signals(signals, scope, now_utc)
     IN /\ signals' = r.signals
        /\ evidence' = r.evidence
  /\ prev' = [signals |-> signals, evidence |-> evidence]
  /\ pc' = "renormalized"
  /\ UNCHANGED <<scope, cfg, env, clock, raw, window, findings, files,
                 manifests, db, tx, trend>>

NextNorm == Normalize \/ NormalizeAgain

SpecNorm == InitNorm /\ [][NextNorm]_vars

----------------------------------------------------------------------------
(* pipeline/scorer.rs on single signals: normalize, then score              *)

NegFlag == <<"suppressed:negative_keyword">>

ScoreSignals ==
  { [RawSignal(t, Example, inds, conf, sev, ts, rat)
       EXCEPT !.policy_flags = fl] :
      t \in {"TyposquatDomain", "Impersonation"},
      inds \in { <<>>, <<ExampleLogin>>, <<ExampleLogin, Rdap(400)>>,
                 <<Exampl3, Rdap(200)>>, <<ExampleLogin, Rdap(10)>>,
                 <<ExampleLogin, Rdap(400), Rdap(10)>>, << <<"SPAM">> >> },
      conf \in {0, 5, 20, 25, 70, 100, 200, 255},
      sev \in {"Low", "High", "Critical"},
      ts \in {0, FixedNow - 30 * TicksPerDay, FixedNow - 30 * TicksPerDay - 1,
              FixedNow - 31 * TicksPerDay},
      rat \in { <<"a">>, <<"spam", " ", "a">> },
      fl \in { <<>>, <<NegFlag>> } }

ScoreScopes ==
  { MakeScope(TRUE, <<>>, kws, 80, "High", 180, 30) :
      kws \in { <<>>, << <<"SPAM">> >>, << <<" ">>, <<"spam">> >>,
                << <<"login">>, <<"spam">> >> } }
  \cup
  { [MakeScope(TRUE, <<>>, <<>>, 80, "High", 180, 30)
       EXCEPT !.policy.typosquat.generic_tokens = << <<"secure">> >>] }

InitScore ==
  /\ pc = "loaded"
  /\ raw \in {<<x>> : x \in ScoreSignals}
  /\ signals = raw
  /\ scope \in ScoreScopes
  /\ cfg = ReplayCfg("Jsonl")
  /\ env = [fixed_time |-> FixedNow, github_sha |-> "test-hash",
            git_hash |-> "test-hash"]
  /\ clock = FixedNow + 1
  /\ window = NoWindow
  /\ evidence = <<>>
  /\ findings = <<>>
  /\ files = NoFiles
  /\ manifests = <<>>
  /\ db = EmptyDb
  /\ tx = NoTx
  /\ trend = NoTrend
  /\ prev = <<>>

NextScore == Normalize \/ Score

SpecScore == InitScore /\ [][NextScore]_vars

----------------------------------------------------------------------------
(* normalize -> score -> correlate -> escalate on batches of one subject    *)

CorrSignals ==
  { RawSignal("TyposquatDomain", Example, inds, 90, "High", FixedNow, rat) :
      inds \in { <<Exampl3>>, <<ExampleLogin>>, <<Exampl3, Landing>>,
                 <<Exampl3, Rdap(400)>> },
      rat \in { <<"a">>, <<"spam">> } }
  \cup
  { RawSignal("NewCert", Example, inds, 0, "Medium", FixedNow, rat) :
      inds \in { <<CtLog>>, <<Landing>> }, rat \in { <<"a">>, <<"spam">> } }
  \cup
  { RawSignal("Impersonation", Example, <<>>, conf, "Medium", FixedNow, rat) :
      conf \in {70, 250}, rat \in { <<"a">>, <<"spam">> } }
  \cup
  { RawSignal("MentionSpike", Example, inds, 40, "Low", FixedNow, rat) :
      inds \in { <<>>, <<Landing>> }, rat \in { <<"a">>, <<"spam">> } }

CorrScopes ==
  { MakeScope(TRUE, <<>>, << <<"spam">> >>, 80, "High", 180, 30),
    MakeScope(TRUE, <<>>, << <<"spam">> >>, 60, "Medium", 180, 30) }

InitCorr ==
  /\ pc = "loaded"
  /\ raw \in Batches(CorrSignals, MaxBatch)
  /\ signals = raw
  /\ scope \in CorrScopes
  /\ cfg = ReplayCfg("Jsonl")
  /\ env = [fixed_time |-> FixedNow, github_sha |-> "test-hash",
            git_hash |-> "test-hash"]
  /\ clock = FixedNow + 1
  /\ window = NoWindow
  /\ evidence = <<>>
  /\ findings = <<>>
  /\ files = NoFiles
  /\ manifests = <<>>
  /\ db = EmptyDb
  /\ tx = NoTx
  /\ trend = NoTrend
  /\ prev = <<>>

NextCorr == Normalize \/ Score \/ Correlate \/ Escalate

SpecCorr == InitCorr /\ [][NextCorr]_vars

----------------------------------------------------------------------------
(* pipeline/escalator.rs on its own: escalate_findings on one finding       *)

OldFlagEntry == <<"policy_flag:", "prefer_digest:old_domain">>

EscFindings ==
  { [id |-> <<"finding_", "#", "a">>, title |-> <<"a">>,
     signals |-> << <<"s1">>, <<"s2">> >>, confidence |-> conf,
     severity |-> sev, rationale |-> <<"a">>, rule_trace |-> trace,
     disposition |-> "Digest", policy_gates |-> <<>>, blocked_by |-> None,
     suppression_reason |-> sup] :
      conf \in {0, 59, 60, 79, 80, 100},
      sev \in Severities,
      trace \in { << <<"rule:impersonation_mention_spike">> >>,
                  << <<"rule:typosquat_newcert_landing">>, OldFlagEntry >>,
                  << <<"rule:typosquat_newcert_landing">>,
                     <<"policy_flag:", "decay:temporal">> >> },
      sup \in { None, Some(GenericReason),
                Some(<<"negative keyword match: ", "spam">>) } }

EscScopes ==
  { MakeScope(TRUE, <<>>, <<>>, min_conf, min_sev, 180, 30) :
      min_conf \in {0, 60, 80}, min_sev \in Severities }

InitEsc ==
  /\ pc = "correlated"
  /\ raw \in {<<f>> : f \in EscFindings}
  /\ findings = raw
  /\ scope \in EscScopes
  /\ cfg = ReplayCfg("Jsonl")
  /\ env = [fixed_time |-> FixedNow, github_sha |-> "test-hash",
            git_hash |-> "test-hash"]
  /\ clock = FixedNow + 1
  /\ window = NoWindow
  /\ signals = NoSignals
  /\ evidence = <<>>
  /\ files = NoFiles
  /\ manifests = <<>>
  /\ db = EmptyDb
  /\ tx = NoTx
  /\ trend = NoTrend
  /\ prev = <<>>

NextEsc == Escalate

SpecEsc == InitEsc /\ [][NextEsc]_vars

----------------------------------------------------------------------------
(* pipeline/reporter.rs on its own: write_outputs on evidence rows that     *)
(* carry a url and a note                                                   *)

EvidenceRows ==
  { [id |-> id, source |-> <<"fixture">>, observed_at |-> FixedNow,
     url |-> url, note |-> note, redacted |-> red] :
      id \in { <<"ev1">>, <<"ev2">> },
      url \in { None, Some(<<"secret", ".", "com">>) },
      note \in { None, Some(<<"a">>) },
      red \in BOOLEAN }

InitRep ==
  /\ pc = "escalated"
  /\ raw \in Batches(EvidenceRows, MaxBatch)
  /\ evidence = raw
  /\ scope \in NormScopes
  /\ cfg = ReplayCfg("Jsonl")
  /\ env = [fixed_time |-> FixedNow, github_sha |-> "test-hash",
            git_hash |-> "test-hash"]
  /\ clock = FixedNow + 1
  /\ window = NoWindow
  /\ signals = NoSignals
  /\ findings = <<>>
  /\ files = NoFiles
  /\ manifests = <<>>
  /\ db = EmptyDb
  /\ tx = NoTx
  /\ trend = NoTrend
  /\ prev = <<>>

NextRep == WriteOutputs

SpecRep == InitRep /\ [][NextRep]_vars

----------------------------------------------------------------------------
(* normalize -> score -> correlate on batches of two subjects               *)

RuleSignals ==
  { RawSignal("TyposquatDomain", Example, inds, 90, "High", FixedNow, <<"a">>) :
      inds \in { <<>>, <<Exampl3>>, <<ExampleLogin>>, <<Exampl3, Landing>> } }
  \cup
  { RawSignal("NewCert", Example, inds, 0, "Medium", FixedNow, <<"a">>) :
      inds \in { <<CtLog>>, <<Landing>> } }
  \cup
  { RawSignal("Impersonation", Example, <<>>, conf, "Medium", FixedNow,
              <<"a">>) : conf \in {70, 95, 250} }
  \cup
  { RawSignal("MentionSpike", Example, inds, 40, "Low", FixedNow, <<"a">>) :
      inds \in { <<>>, <<Landing>> } }
  \cup
  { RawSignal("TyposquatDomain", SecretCom, <<Exampl3, Landing>>, 80, "High",
              FixedNow, <<"a">>),
    RawSignal("NewCert", SecretCom, <<CtLog>>, 240, "Medium", FixedNow,
              <<"a">>),
    RawSignal("Impersonation", SecretCom, <<>>, 0, "Medium", FixedNow,
              <<"a">>),
    RawSignal("MentionSpike", SecretCom, <<>>, 0, "Low", FixedNow, <<"a">>) }

InitRule ==
  /\ pc = "loaded"
  /\ raw \in Batches(RuleSignals, MaxGroup)
  /\ signals = raw
  /\ scope = MakeScope(TRUE, <<>>, <<>>, 80, "High", 180, 30)
  /\ cfg = ReplayCfg("Jsonl")
  /\ env = [fixed_time |-> FixedNow, github_sha |-> "test-hash",
            git_hash |-> "test-hash"]
  /\ clock = FixedNow + 1
  /\ window = NoWindow
  /\ evidence = <<>>
  /\ findings = <<>>
  /\ files = NoFiles
  /\ manifests = <<>>
  /\ db = EmptyDb
  /\ tx = NoTx
  /\ trend = NoTrend
  /\ prev = <<>>

NextRule == Normalize \/ Score \/ Correlate

SpecRule == InitRule /\ [][NextRule]_vars

----------------------------------------------------------------------------
(* every stage of the pipeline on inputs in any order                       *)

SortSignals ==
  { RawSignal("TyposquatDomain", Example, <<Exampl3, Landing>>, 90, "High",
              FixedNow, <<"a">>),
    RawSignal("NewCert", Example, <<CtLog>>, 0, "Medium", FixedNow, <<"a">>),
    RawSignal("Impersonation", Example, <<>>, 70, "Medium", FixedNow, <<"a">>),
    RawSignal("MentionSpike", Example, <<>>, 40, "Low", FixedNow, <<"a">>),
    [RawSignal("MentionSpike", SecretCom, <<>>, 40, "Low", FixedNow, <<"a">>)
       EXCEPT !.id = <<"s1">>, !.evidence_ref = <<"ev2">>] }

SortFindings ==
  { [id |-> id, title |-> <<"a">>, signals |-> << <<"s1">> >>,
     confidence |-> 80, severity |-> "High", rationale |-> <<"a">>,
     rule_trace |-> << <<"rule:impersonation_mention_spike">> >>,
     disposition |-> "Digest", policy_gates |-> <<>>, blocked_by |-> None,
     suppression_reason |-> sup] :
      id \in { <<"finding_", "#", "a">>, <<"finding_", "#", "b">> },
      sup \in { None, Some(GenericReason) } }

SortEvidence ==
  { [id |-> id, source |-> <<"fixture">>, observed_at |-> FixedNow,
     url |-> None, note |-> None, redacted |-> FALSE] :
      id \in { <<"ev1">>, <<"ev2">>, <<"ev_", "#", "a">> } }

SortStored ==
  { [RawSignal("Impersonation", Example, <<>>, 70, "Medium", FixedNow, <<"a">>)
       EXCEPT !.id = id, !.evidence_ref = <<"ev1">>] :
      id \in { <<"s1">>, <<"s2">>, <<"sig_", "#", "a">> } }

DetectorNames == {"a", "replay", "typosquat"}

InitSorted ==
  /\ scope = MakeScope(TRUE, <<>>, <<>>, 80, "High", 180, 30)
  /\ cfg \in {ReplayCfg("Jsonl"), ReplayCfg("Json")}
  /\ env = [fixed_time |-> FixedNow, github_sha |-> "test-hash",
            git_hash |-> "test-hash"]
  /\ clock = FixedNow + 1
  /\ window = NoWindow
  /\ manifests = <<>>
  /\ db = EmptyDb
  /\ tx = NoTx
  /\ trend = NoTrend
  /\ prev = <<>>
  /\ raw = <<>>
  /\ \/ /\ pc = "loaded"
        /\ signals \in Batches(SortSignals, MaxSorted)
        /\ evidence = <<>>
        /\ findings = <<>>
        /\ files = NoFiles
     \/ /\ pc = "correlated"
        /\ signals = NoSignals
        /\ evidence = <<>>
        /\ findings \in Batches(SortFindings, MaxBatch)
        /\ files = NoFiles
     \/ /\ pc = "escalated"
        /\ signals \in Batches(SortStored, MaxBatch)
        /\ evidence \in Batches(SortEvidence, MaxBatch)
        /\ findings = <<>>
        /\ files = NoFiles
     \/ /\ pc = "written"
        /\ signals = NoSignals
        /\ evidence = <<>>
        /\ findings = <<>>
        /\ files \in { [NoFiles EXCEPT !.evidence = File(<<>>),
                                       !.output =
                                          File(write_signals_output(<<>>,
                                                                    cfg.format)),
                                       !.detectors = d] :
                          d \in Batches(DetectorNames, MaxBatch) }

NextSorted ==
  Normalize \/ Score \/ Correlate \/ Escalate \/ WriteOutputs \/ PersistRun

SpecSorted == InitSorted /\ [][NextSorted]_vars

----------------------------------------------------------------------------
(* core/store.rs: store_run statement by statement, purge, trend report     *)

DaysAgo(n) == FixedNow - n * TicksPerDay

StoredSignal(id, type, subject, key, ts) ==
  [RawSignal(type, subject, <<>>, 70, "Medium", ts, <<"a">>)
     EXCEPT !.id = id, !.evidence_ref = <<"ev1">>, !.dedupe_key = key]

\* the signals of the calls under study
CallSignals ==
  { StoredSignal(<<"s1">>, "Impersonation", Example, <<"a">>, DaysAgo(7)),
    StoredSignal(<<"s1">>, "MentionSpike", Example, <<"a">>, DaysAgo(7) - 1),
    StoredSignal(<<"s2">>, "Impersonation", SecretCom, <<"b">>, FixedNow - 1) }

\* the signals earlier runs left in the tables
OldSignals ==
  { StoredSignal(<<"s1">>, "Impersonation", Example, <<"a">>, DaysAgo(7)),
    StoredSignal(<<"s2">>, "Impersonation", SecretCom, <<"b">>, DaysAgo(14)),
    StoredSignal(<<"other">>, "NewCert", SecretCom, <<"a">>, DaysAgo(14) - 1),
    StoredSignal(<<"z">>, "NewCert", Example, <<"b">>, FixedNow) }

NewSignals ==
  { StoredSignal(<<"s1">>, "MentionSpike", Example, <<"a">>, DaysAgo(7) - 1),
    StoredSignal(<<"s2">>, "Impersonation", SecretCom, <<"b">>, FixedNow - 1),
    StoredSignal(<<"b">>, "MentionSpike", SecretCom, <<"z">>, DaysAgo(1)),
    StoredSignal(<<"z">>, "NewCert", Example, <<"b">>, FixedNow) }

StoreFindings == {f \in SortFindings : ~f.suppression_reason.some}

StoreScope == MakeScope(TRUE, <<>>, <<>>, 80, "High", 180, 30)

\* the manifest of a run whose window started at the given time
StoreManifest(start) ==
  build_manifest(NoFiles, <<"replay">>, StoreScope, ReplayCfg("Jsonl"),
                 [start |-> start, end |-> start + 1])

StoreCall(run_start, start, sigs, fnds) ==
  [run_id |-> stable_run_id(StoreManifest(run_start)),
   manifest |-> StoreManifest(start), signals |-> sigs, findings |-> fnds]

StoreCalls ==
  { StoreCall(FixedNow, st, sigs, fnds) :
      st \in {FixedNow, DaysAgo(40)},
      sigs \in SeqsUpTo(CallSignals, MaxStored),
      fnds \in SeqsUpTo(StoreFindings, 1) }

OldCalls ==
  { StoreCall(st, st, <<x>>, <<f>>) :
      st \in {DaysAgo(40), DaysAgo(7) - 1}, x \in OldSignals,
      f \in {g \in StoreFindings : g.id = <<"finding_", "#", "a">>} }

NewCalls ==
  { StoreCall(st, st, <<x>>, <<f>>) :
      st \in {DaysAgo(7), FixedNow}, x \in NewSignals,
      f \in {g \in StoreFindings : g.id = <<"finding_", "#", "b">>} }

StoreCommitted(d, c) ==
  store_run(d, c.run_id, c.manifest, c.signals, c.findings)

\* the tables that two earlier runs leave
StoreDbs ==
  {EmptyDb} \cup
  {StoreCommitted(StoreCommitted(EmptyDb, c1), c2) :
      c1 \in OldCalls, c2 \in NewCalls}

NoHistory == [before |-> EmptyDb, first |-> EmptyDb, steps |-> 0, arg |-> 0]

NoCall == StoreCall(FixedNow, FixedNow, <<>>, <<>>)

PurgeDays == {0, 7, 30}

TrendWindows == {1, 7}

InitStore ==
  /\ pc = "idle"
  /\ env = [fixed_time |-> FixedNow, github_sha |-> "test-hash",
            git_hash |-> "test-hash"]
  /\ db \in StoreDbs
  /\ tx = NoTx
  /\ trend = NoTrend
  /\ raw = NoCall
  /\ prev = NoHistory
  /\ scope = StoreScope
  /\ cfg = ReplayCfg("Jsonl")
  /\ clock = FixedNow + 1
  /\ window = NoWindow
  /\ signals = NoSignals
  /\ evidence = <<>>
  /\ findings = <<>>
  /\ files = NoFiles
  /\ manifests = <<>>

\* store_run is called: self.conn.transaction()
StoreBegin ==
  /\ pc = "idle"
  /\ \E c \in StoreCalls : raw' = c
  /\ tx' = [open |-> TRUE, work |-> db, step |-> 0]
  /\ prev' = [NoHistory EXCEPT !.before = db]
  /\ pc' = "in_tx"
  /\ UNCHANGED <<scope, cfg, env, clock, window, signals, evidence, findings,
                 files, manifests, db, trend>>

\* the same call is made again: self.conn.transaction()
StoreAgain ==
  /\ pc = "stored"
  /\ tx' = [open |-> TRUE, work |-> db, step |-> 0]
  /\ prev' = [prev EXCEPT !.before = db]
  /\ pc' = "in_tx_again"
  /\ UNCHANGED <<scope, cfg, env, clock, raw, window, signals, evidence,
                 findings, files, manifests, db, trend>>

\* one tx.execute of store_run
StoreExecute ==
  /\ pc \in {"in_tx", "in_tx_again"}
  /\ tx.step < store_run_statements(raw.signals, raw.findings)
  /\ LET work == store_run_partial(prev.before, raw.run_id, raw.manifest,
                                    raw.signals, raw.findings, tx.step + 1)
     IN /\ tx' = [tx EXCEPT !.step = @ + 1, !.work = work]
        /\ db' = uncommitted_view(db, work)
  /\ UNCHANGED <<pc, scope, cfg, env, clock, raw, window, signals, evidence,
                 findings, files, manifests, prev, trend>>

\* tx.commit()
StoreCommit ==
  /\ pc \in {"in_tx", "in_tx_again"}
  /\ tx.step = store_run_statements(raw.signals, raw.findings)
  /\ db' = tx.work
  /\ tx' = NoTx
  /\ prev' = IF pc = "in_tx" THEN [prev EXCEPT !.first = tx.work] ELSE prev
  /\ pc' = IF pc = "in_tx" THEN "stored" ELSE "restored"
  /\ UNCHANGED <<scope, cfg, env, clock, raw, window, signals, evidence,
                 findings, files, manifests, trend>>

\* a statement returns an error, or the process stops, before tx.commit():
\* the transaction is rolled back
StoreFail ==
  /\ pc \in {"in_tx", "in_tx_again"}
  /\ tx' = NoTx
  /\ prev' = [prev EXCEPT !.steps = tx.step]
  /\ pc' = "aborted"
  /\ UNCHANGED <<scope, cfg, env, clock, raw, window, signals, evidence,
                 findings, files, manifests, db, trend>>

\* purge_older_than(days)
Purge ==
  /\ pc = "idle"
  /\ \E days \in PurgeDays :
        /\ db' = purge_older_than(db, days, now_utc)
        /\ prev' = [NoHistory EXCEPT !.before = db, !.arg = days]
  /\ pc' = "purged"
  /\ UNCHANGED <<scope, cfg, env, clock, raw, window, signals, evidence,
                 findings, files, manifests, tx, trend>>

\* trend_report(window)
Trend ==
  /\ pc \in {"idle", "stored"}
  /\ \E days \in TrendWindows :
        /\ trend' = trend_report(db, days * TicksPerDay, now_utc)
        /\ prev' = [NoHistory EXCEPT !.before = db, !.arg = days]
  /\ pc' = "reported"
  /\ UNCHANGED <<scope, cfg, env, clock, raw, window, signals, evidence,
                 findings, files, manifests, db, tx>>

NextStore ==
  \/ StoreBegin
  \/ StoreAgain
  \/ StoreExecute
  \/ StoreCommit
  \/ StoreFail
  \/ Purge
  \/ Trend

SpecStore == InitStore /\ [][NextStore]_vars

----------------------------------------------------------------------------
(* core/scope.rs on its own: Scope::validate on scopes with and without     *)
(* each required part                                                       *)

\* the scope files: terms, allow-lists and privacy settings present or not
GateScopes ==
  { [MakeScope(p[1], p[2], <<>>, 80, "High", 180, 30)
       EXCEPT !.domains = d, !.brand_terms = b, !.allowed_sources = s,
              !.allowed_detectors = t] :
      p \in { <<TRUE, <<>> >>, <<FALSE, <<>> >>,
              <<FALSE, << <<"secret">> >> >> },
      d \in { <<>>, << Example >> },
      b \in { <<>>, << <<"example">> >> },
      s \in { <<>>, << <<"fixture">> >> },
      t \in { <<>>, << <<"typosquat">> >>, << <<"TYPOSQUAT">> >>,
              << <<"other">> >> } }

InitValidate ==
  /\ pc = "start"
  /\ scope \in GateScopes
  /\ cfg \in { [ReplayCfg("Jsonl") EXCEPT !.demo_safe = ds] :
                 ds \in BOOLEAN }
  /\ env = [fixed_time |-> FixedNow, github_sha |-> "test-hash",
            git_hash |-> "test-hash"]
  /\ clock = FixedNow + 1
  /\ raw = <<>>
  /\ window = NoWindow
  /\ signals = NoSignals
  /\ evidence = <<>>
  /\ findings = <<>>
  /\ files = NoFiles
  /\ manifests = <<>>
  /\ db = EmptyDb
  /\ tx = NoTx
  /\ trend = NoTrend
  /\ prev = <<>>

\* scope.validate(cfg.demo_safe) on the scope as it was loaded
Validate ==
  /\ pc = "start"
  /\ prev' = validate(scope, cfg.demo_safe)
  /\ pc' = "validated"
  /\ UNCHANGED <<scope, cfg, env, clock, raw, window, signals, evidence,
                 findings, files, manifests, db, tx, trend>>

NextValidate == Validate

SpecValidate == InitValidate /\ [][NextValidate]_vars

----------------------------------------------------------------------------
(* cli/commands.rs: run, from the command line to the end of a scan or of a *)
(* replay                                                                   *)

\* the command lines: command, --demo-safe, --no-network, --detectors,
\* --sources
GateCfgs ==
  { [ReplayCfg("Jsonl")
       EXCEPT !.command = c, !.demo_safe = ds, !.no_network = nn,
              !.detectors = d, !.sources = s] :
      c \in {"Scan", "Replay"}, ds \in BOOLEAN, nn \in BOOLEAN,
      d \in { None, Some(<< <<"typosquat">> >>), Some(<< <<"TYPOSQUAT">> >>),
              Some(<< <<"other">> >>) },
      s \in { None, Some(<< <<"fixture">> >>), Some(<< <<"github">> >>) } }

GateFixture ==
  << RawSignal("Impersonation", Example, << <<"a">> >>, 70, "Medium",
               FixedNow, <<"a">>) >>

InitGate ==
  /\ pc = "invoked"
  /\ scope \in GateScopes
  /\ cfg \in GateCfgs
  /\ env = [fixed_time |-> FixedNow, github_sha |-> "test-hash",
            git_hash |-> "test-hash"]
  /\ clock = FixedNow + 1
  /\ raw = IF cfg.command = "Replay" THEN GateFixture ELSE <<>>
  /\ window = NoWindow
  /\ signals = NoSignals
  /\ evidence = <<>>
  /\ findings = <<>>
  /\ files = NoFiles
  /\ manifests = <<>>
  /\ db = EmptyDb
  /\ tx = NoTx
  /\ trend = NoTrend
  /\ prev = <<>>

\* run: sanitize_for_demo, validate, enforce_scope_filters, then the command
Run ==
  /\ pc = "invoked"
  /\ LET sc == IF cfg.demo_safe THEN sanitize_for_demo(scope) ELSE scope
         valid == validate(sc, cfg.demo_safe)
         gate == enforce_scope_filters(cfg, sc)
     IN /\ scope' = sc
        /\ IF valid # Ok
           THEN pc' = "error" /\ prev' = valid
           ELSE IF gate # Ok
           THEN pc' = "error" /\ prev' = gate
           ELSE /\ pc' = IF cfg.command = "Scan" THEN "scan" ELSE "start"
                /\ prev' = prev
  /\ UNCHANGED <<cfg, env, clock, raw, window, signals, evidence, findings,
                 files, manifests, db, tx, trend>>

\* run_scan: run_window(); collect_signals
Collect ==
  /\ pc = "scan"
  /\ window' = run_window
  /\ LET r == collect_signals(scope, cfg.no_network, run_window,
                              cfg.detectors)
     IN IF r.result # Ok
        THEN /\ pc' = "error"
             /\ prev' = r.result
             /\ UNCHANGED <<signals, files>>
        ELSE /\ pc' = "loaded"
             /\ signals' = r.signals
             /\ files' = [files EXCEPT !.detectors = r.detectors]
             /\ prev' = prev
  /\ UNCHANGED <<scope, cfg, env, clock, raw, evidence, findings, manifests,
                 db, tx, trend>>

NextGate ==
  \/ Run
  \/ Collect
  \/ LoadFixture
  \/ Normalize
  \/ Score
  \/ Correlate
  \/ Escalate
  \/ WriteOutputs
  \/ PersistRun

SpecGate == InitGate /\ [][NextGate]_vars

----------------------------------------------------------------------------
(* pipeline/normalizer.rs on a raw list and on a permutation of it          *)

\* raw signals that receive the same id, equal ids with different evidence,
\* and different ids
OrderSignals ==
  { [RawSignal("Impersonation", Example, inds, conf, "Medium", FixedNow,
               <<"a">>)
       EXCEPT !.source = src] :
      inds \in { << <<"b">>, <<"a">> >> }, conf \in {40, 70},
      src \in { <<"fixture">>, <<"manual">> } }
  \cup
  { RawSignal("Impersonation", Example, << <<"a">>, <<"secret">> >>, 70,
              "Medium", FixedNow, <<"a">>),
    [RawSignal("MentionSpike", Example, <<>>, 70, "Low", FixedNow, <<"a">>)
       EXCEPT !.id = <<"s1">>, !.evidence_ref = <<"ev1">>],
    [RawSignal("MentionSpike", Example, <<>>, 70, "Low", FixedNow, <<"a">>)
       EXCEPT !.id = <<"s2">>, !.evidence_ref = <<"ev1">>,
              !.source = <<"manual">>] }

InitOrder ==
  /\ pc = "loaded"
  /\ raw \in Batches(OrderSignals, MaxBatch)
  /\ signals = raw
  /\ scope \in NormScopes
  /\ cfg = ReplayCfg("Jsonl")
  /\ env = [fixed_time |-> FixedNow, github_sha |-> "test-hash",
            git_hash |-> "test-hash"]
  /\ clock = FixedNow + 1
  /\ window = NoWindow
  /\ evidence = <<>>
  /\ findings = <<>>
  /\ files = NoFiles
  /\ manifests = <<>>
  /\ db = EmptyDb
  /\ tx = NoTx
  /\ trend = NoTrend
  /\ prev = <<>>

\* normalize_signals applied to a permutation of the raw list
NormalizePermuted ==
  /\ pc = "normalized"
  /\ \E p \in Perms(raw) :
        prev' = [input |-> p, output |-> normalize_signals(p, scope, now_utc)]
  /\ pc' = "permuted"
  /\ UNCHANGED <<scope, cfg, env, clock, raw, window, signals, evidence,
                 findings, files, manifests, db, tx, trend>>

NextOrder == Normalize \/ NormalizePermuted

SpecOrder == InitOrder /\ [][NextOrder]_vars

----------------------------------------------------------------------------
(* Properties *)

\* C1: two runs of the replay pipeline from the same scope, fixture, run
\* config, GITHUB_SHA/GIT_HASH and the same BF_FIXED_TIME return manifests
\* that are equal field by field, and so the same run_id.
C1_DeterministicManifest ==
  env.fixed_time # NoTime =>
     \A i, j \in 1..Len(manifests) :
        /\ manifests[i] = manifests[j]
        /\ stable_run_id(manifests[i]) = stable_run_id(manifests[j])

C1_Witness ==
  /\ Len(manifests) = 2
  /\ env.fixed_time # NoTime
  /\ clock # env.fixed_time + 1
  /\ files.manifest.exists

\* C2: stable_signal_id and dedupe_key do not change when the indicator list
\* is permuted.
C2_IndicatorOrderIndependence ==
  pc = "hashed" =>
     /\ prev.id_permuted = prev.id
     /\ prev.key_permuted = prev.key

C2_Witness ==
  /\ pc = "hashed"
  /\ Len(raw.indicators) >= 2
  /\ raw.permuted # raw.indicators
  /\ ~IsSortedBy(StrLess, raw.permuted)

\* C3: normalize_signals applied to the signals it returned returns the same
\* signals, field by field, and the same evidence sidecar.
C3_IdempotentNormalization ==
  pc = "renormalized" =>
     /\ signals = prev.signals
     /\ evidence = prev.evidence

MatchesRedactPattern(s) ==
  \E i \in 1..Len(scope.privacy.redact_patterns) :
     Contains(s, scope.privacy.redact_patterns[i])

SignalFieldsClean(sig) ==
  /\ ~MatchesRedactPattern(sig.subject)
  /\ ~MatchesRedactPattern(sig.source)
  /\ ~MatchesRedactPattern(sig.dedupe_key)
  /\ ~MatchesRedactPattern(sig.rationale)
  /\ \A i \in 1..Len(sig.indicators) : ~MatchesRedactPattern(sig.indicators[i])
  /\ \A i \in 1..Len(sig.recommended_actions) :
        ~MatchesRedactPattern(sig.recommended_actions[i])

\* C4: with store_raw=false no field of a persisted signal (a row of the
\* signals table with its data_json, a record of the signals output file)
\* contains a match of a redact pattern: subject, source, dedupe_key,
\* indicators, rationale, recommended_actions.
C4_NoRedactedTextPersisted ==
  ~scope.privacy.store_raw =>
     /\ \A r \in db.signals :
           /\ ~MatchesRedactPattern(r.subject)
           /\ ~MatchesRedactPattern(r.source)
           /\ ~MatchesRedactPattern(r.dedupe_key)
           /\ SignalFieldsClean(r.data_json)
     /\ files.output.exists =>
           \A i \in 1..Len(files.output.content.records) :
              SignalFieldsClean(files.output.content.records[i])

\* C5: with store_raw=false every evidence row write_evidence_jsonl writes
\* has url = null, note = null and redacted = true, whatever the in-memory
\* rows hold, and the in-memory rows keep their values (their order may
\* change).
C5_EvidencePrivacy ==
  (pc = "written" /\ ~scope.privacy.store_raw) =>
     /\ Len(files.evidence.content) = Len(raw)
     /\ \A i \in 1..Len(files.evidence.content) :
           /\ files.evidence.content[i].url = None
           /\ files.evidence.content[i].note = None
           /\ files.evidence.content[i].redacted = TRUE
     /\ \A r \in Range(raw) \cup Range(evidence) :
           Count(evidence, r) = Count(raw, r)

C5_Witness ==
  /\ pc = "written"
  /\ ~scope.privacy.store_raw
  /\ \E i \in 1..Len(raw) :
        raw[i].url.some /\ raw[i].note.some /\ ~raw[i].redacted
  /\ evidence # raw

\* C6: after score_signals the confidence of every signal is in 0..100, for
\* every raw confidence in 0..255.
C6_ConfidenceRange ==
  pc = "scored" =>
     \A i \in 1..Len(signals) :
        signals[i].confidence >= 0 /\ signals[i].confidence <= 100

\* a keyword that is not blank occurs, case-insensitively, in the subject,
\* the rationale or an indicator of the signal
KeywordOccurs(sig, kw) ==
  /\ Trim(kw) # <<>>
  /\ \/ Contains(ToLower(sig.subject), ToLower(kw))
     \/ Contains(ToLower(sig.rationale), ToLower(kw))
     \/ \E i \in 1..Len(sig.indicators) :
           Contains(ToLower(sig.indicators[i]), ToLower(kw))

NegativeKeywordHit(sig) ==
  \E k \in 1..Len(scope.negative_keywords) :
     KeywordOccurs(sig, scope.negative_keywords[k])

\* C7: a signal in which a negative keyword occurs ends score_signals (after
\* the temporal decay and the typosquat tuning) with confidence <= 20,
\* severity Low, a suppression_reason, and the flag
\* suppressed:negative_keyword exactly once.
C7_NegativeKeywordClamp ==
  pc = "scored" =>
     \A i \in 1..Len(signals) :
        NegativeKeywordHit(prev[i]) =>
           /\ signals[i].confidence <= 20
           /\ signals[i].severity = "Low"
           /\ signals[i].suppression_reason.some
           /\ Count(signals[i].policy_flags, NegFlag) = 1

C7_Witness ==
  /\ pc = "scored"
  /\ NegativeKeywordHit(prev[1])
  /\ prev[1].confidence = 20
  /\ Count(signals[1].policy_flags, <<"decay:temporal">>) = 1
  /\ Count(signals[1].policy_flags, <<"suppressed:generic_token">>) = 1
  /\ signals[1].confidence = 20

\* the signals of the batch that a finding lists
Contributors(f) ==
  {i \in 1..Len(signals) : signals[i].id \in Range(f.signals)}

\* the suppression reasons of the contributors that corroboration stripping
\* leaves
SurvivingReasons(f) ==
  LET subjects == {signals[i].subject : i \in Contributors(f)}
      group == SelectSeq(signals, LAMBDA x : x.subject \in subjects)
  IN {signals[i].suppression_reason.val :
        i \in {j \in Contributors(f) :
                 /\ signals[j].suppression_reason.some
                 /\ ~(has_corroboration(group)
                        /\ Contains(signals[j].suppression_reason.val,
                                    <<"generic-token">>))}}

\* C8: a finding with a contributing signal whose suppression_reason survives
\* corroboration stripping is Suppressed and blocked_by is "suppressed: "
\* followed by the reason, whatever its severity, confidence and flags.
C8_SuppressionWins ==
  pc = "escalated" =>
     \A i \in 1..Len(findings) :
        LET f == findings[i]
            R == SurvivingReasons(f)
        IN R # {} =>
              /\ f.disposition = "Suppressed"
              /\ f.blocked_by.some
              /\ IsPrefix(<<"suppressed: ">>, f.blocked_by.val)
              /\ \A r \in R : Contains(f.blocked_by.val, r)
              /\ Cardinality(R) = 1 =>
                    \A r \in R : f.blocked_by.val = <<"suppressed: ">> \o r

ClaimRank(sev) ==
  CASE sev = "Low" -> 0 [] sev = "Medium" -> 1 [] sev = "High" -> 2
    [] sev = "Critical" -> 3

MeetsThresholds(f) ==
  /\ ClaimRank(f.severity) >= ClaimRank(scope.policy.min_severity_alert)
  /\ f.confidence >= scope.policy.min_confidence_alert

C8_Witness ==
  /\ pc = "escalated"
  /\ \E i \in 1..Len(findings) :
        /\ SurvivingReasons(findings[i]) # {}
        /\ MeetsThresholds(findings[i])
        /\ findings[i].disposition = "Suppressed"
        /\ \E j \in Contributors(findings[i]) :
              ~signals[j].suppression_reason.some

CarriesOldDomainEntry(f) ==
  \E i \in 1..Len(f.rule_trace) : f.rule_trace[i] = OldFlagEntry

\* the disposition of the first matching case of the decision table
TableDisposition(f) ==
  IF f.suppression_reason.some THEN "Suppressed"
  ELSE IF CarriesOldDomainEntry(f) THEN "Digest"
  ELSE IF MeetsThresholds(f) THEN "Alert"
  ELSE IF f.severity \in {"Medium", "High"} THEN "Investigate"
  ELSE "Digest"

\* the finding as it was handed to escalate_findings
Handed(f) == CHOOSE g \in Range(raw) : g.id = f.id

\* C9: escalate_findings gives each finding the disposition of the first
\* matching case of: suppression_reason set -> Suppressed; old-domain entry
\* in rule_trace -> Digest; both thresholds met -> Alert with no blocked_by;
\* severity Medium or High -> Investigate; otherwise Digest.
C9_DecisionTable ==
  pc = "escalated" =>
     \A i \in 1..Len(findings) :
        LET f == findings[i]
            g == Handed(f)
        IN /\ f.disposition = TableDisposition(g)
           /\ f.disposition = "Alert" =>
                 /\ f.blocked_by = None
                 /\ ~g.suppression_reason.some
                 /\ ~CarriesOldDomainEntry(g)
                 /\ MeetsThresholds(g)

C9_Witness ==
  /\ pc = "escalated"
  /\ raw[1].suppression_reason.some
  /\ CarriesOldDomainEntry(raw[1])
  /\ MeetsThresholds(raw[1])
  /\ findings[1].disposition = "Suppressed"

OldDomainBlock == Some(<<"policy: typosquat.old_domain_days">>)

\* C10 as stated: every finding whose rule_trace carries the old-domain entry
\* is given disposition Digest with blocked_by
\* "policy: typosquat.old_domain_days".
C10_OldDomainAlwaysDigest ==
  pc = "escalated" =>
     \A i \in 1..Len(findings) :
        CarriesOldDomainEntry(Handed(findings[i])) =>
           /\ findings[i].disposition = "Digest"
           /\ findings[i].blocked_by = OldDomainBlock

\* C10 amended: every finding without a suppression_reason whose rule_trace
\* carries the old-domain entry is given disposition Digest with blocked_by
\* "policy: typosquat.old_domain_days", also when severity and confidence
\* meet the alert thresholds.
C10_OldDomainDigestUnlessSuppressed ==
  pc = "escalated" =>
     \A i \in 1..Len(findings) :
        (/\ CarriesOldDomainEntry(Handed(findings[i]))
         /\ ~Handed(findings[i]).suppression_reason.some) =>
           /\ findings[i].disposition = "Digest"
           /\ findings[i].blocked_by = OldDomainBlock

C10_Witness ==
  /\ pc = "escalated"
  /\ CarriesOldDomainEntry(raw[1])
  /\ ~raw[1].suppression_reason.some
  /\ MeetsThresholds(raw[1])
  /\ findings[1].disposition = "Digest"
  /\ findings[1].blocked_by = OldDomainBlock

R1Rule == <<"rule:typosquat_newcert_landing">>

R2Rule == <<"rule:impersonation_mention_spike">>

R1Title(subject) == <<"Potential impersonation infrastructure for ">> \o subject

R2Title(subject) ==
  <<"Impersonation signals with mention spike for ">> \o subject

\* the signals of the scored batch with the given subject
GroupOf(subject) == SelectSeq(signals, LAMBDA x : x.subject = subject)

IsLandingSignal(x) ==
  \E k \in 1..Len(x.indicators) :
     \/ Contains(ToLower(x.indicators[k]), <<"landing_similarity">>)
     \/ Contains(ToLower(x.indicators[k]), <<"favicon_similarity">>)

\* a typosquat signal with a candidate domain that is not generic-only, or
\* whose subject is corroborated
IsEligibleTypo(x, group) ==
  /\ x.signal_type = "TyposquatDomain"
  /\ x.indicators # <<>>
  /\ x.indicators[1] # <<>>
  /\ \/ ~is_generic_typosquat(x.subject, x.indicators[1])
     \/ has_corroboration(group)

R1Due(subject) ==
  LET g == GroupOf(subject)
  IN /\ \E k \in 1..Len(g) : IsEligibleTypo(g[k], g)
     /\ \E k \in 1..Len(g) : g[k].signal_type = "NewCert"
     /\ \E k \in 1..Len(g) : IsLandingSignal(g[k])

R2Due(subject) ==
  LET g == GroupOf(subject)
  IN /\ \E k \in 1..Len(g) : g[k].signal_type = "Impersonation"
     /\ \E k \in 1..Len(g) : g[k].signal_type = "MentionSpike"

IsR1For(f, subject) ==
  f.rule_trace[1] = R1Rule /\ f.title = R1Title(subject)

IsR2For(f, subject) ==
  f.rule_trace[1] = R2Rule /\ f.title = R2Title(subject)

BatchSubjects == {signals[i].subject : i \in 1..Len(signals)}

\* C11: for each subject group correlate_signals emits exactly one R1 finding
\* when the group has an eligible typosquat, a NewCert and a landing signal
\* and none otherwise, exactly one R2 finding when it has an Impersonation and
\* a MentionSpike signal and none otherwise, and no other finding.
C11_RuleFiring ==
  pc = "correlated" =>
     /\ \A s \in BatchSubjects :
           /\ Cardinality({i \in 1..Len(findings) : IsR1For(findings[i], s)})
                 = IF R1Due(s) THEN 1 ELSE 0
           /\ Cardinality({i \in 1..Len(findings) : IsR2For(findings[i], s)})
                 = IF R2Due(s) THEN 1 ELSE 0
     /\ \A i \in 1..Len(findings) :
           \E s \in BatchSubjects :
              IsR1For(findings[i], s) \/ IsR2For(findings[i], s)

C11_Witness ==
  /\ pc = "correlated"
  /\ \E s \in BatchSubjects :
        LET g == GroupOf(s)
        IN /\ \E i \in 1..Len(findings) : IsR1For(findings[i], s)
           /\ \E k \in 1..Len(g) :
                 /\ g[k].signal_type = "TyposquatDomain"
                 /\ ~IsEligibleTypo(g[k], g)

\* the signals of a subject group that rule R1, rule R2 collect
R1Contributors(subject) ==
  LET g == GroupOf(subject)
  IN {g[k] : k \in {n \in 1..Len(g) :
                      \/ IsEligibleTypo(g[n], g)
                      \/ g[n].signal_type = "NewCert"
                      \/ IsLandingSignal(g[n])}}

R2Contributors(subject) ==
  LET g == GroupOf(subject)
  IN {g[k] : k \in {n \in 1..Len(g) :
                      g[n].signal_type \in {"Impersonation", "MentionSpike"}}}

MaxConfidence(S) == CHOOSE m \in {x.confidence : x \in S} :
                       \A x \in S : x.confidence <= m

FindingAttributes(f, rule, contributors, bonus, severity) ==
  /\ f.severity = severity
  /\ f.confidence = Min(100, MaxConfidence(contributors) + bonus)
  /\ Range(f.signals) = {x.id : x \in contributors}
  /\ \A k \in 1..(Len(f.signals) - 1) :
        f.signals[k] = f.signals[k + 1] \/ StrLess(f.signals[k], f.signals[k + 1])
  /\ f.id = <<"finding_", "#", rule, "|">> \o Join(f.signals, <<",">>)

GenericOnlyCandidate(sig) ==
  /\ sig.indicators # <<>>
  /\ LET rest == Range(sld_tokens(sig.indicators[1]))
                    \ Range(sld_tokens(sig.subject))
     IN /\ rest # {}
        /\ rest \subseteq Range(scope.policy.typosquat.generic_tokens)

IsCorroborationMarker(ind) ==
  \/ RdapAge(ind).some /\ RdapAge(ind).val < 30
  \/ \E m \in {"ct_cert", "ct_log", "new_cert", "landing_similarity",
                "favicon_similarity"} : Contains(ToLower(ind), <<m>>)

UncorroboratedGeneric(sig) ==
  /\ sig.signal_type = "TyposquatDomain"
  /\ GenericOnlyCandidate(sig)
  /\ \A k \in 1..Len(sig.indicators) : ~IsCorroborationMarker(sig.indicators[k])

GenericFlag == <<"suppressed:generic_token">>

\* C13: a TyposquatDomain signal whose first indicator is a generic-only
\* candidate and that has no corroboration marker among its indicators ends
\* score_signals with confidence <= 60, severity Low or Medium,
\* suppression_reason "generic-token typosquat without corroboration" and the
\* flag suppressed:generic_token exactly once.
C13_GenericCap ==
  pc = "scored" =>
     \A i \in 1..Len(signals) :
        UncorroboratedGeneric(prev[i]) =>
           /\ signals[i].confidence <= 60
           /\ signals[i].severity \in {"Low", "Medium"}
           /\ signals[i].suppression_reason
                 = Some(<<"generic-token", " typosquat without corroboration">>)
           /\ Count(signals[i].policy_flags, GenericFlag) = 1

C13_Witness ==
  /\ pc = "scored"
  /\ UncorroboratedGeneric(prev[1])
  /\ Len(prev[1].indicators) > 1
  /\ prev[1].confidence = 200
  /\ prev[1].severity = "Critical"
  /\ ~NegativeKeywordHit(prev[1])
  /\ signals[1].severity = "Medium"

\* the ids of a list of records
IdsIn(rows) == [k \in 1..Len(rows) |-> rows[k].id]

Ascending(ids) ==
  \A k \in 1..(Len(ids) - 1) : ids[k] = ids[k + 1] \/ StrLess(ids[k], ids[k + 1])

AscendingNames(names) ==
  \A k \in 1..(Len(names) - 1) : Rank(names[k]) <= Rank(names[k + 1])

\* C14: normalize_signals returns signals and evidence in ascending id order,
\* correlate_signals and escalate_findings return findings in ascending id
\* order, the evidence file and the signals file list their rows in ascending
\* id order, and detector_list of the manifest is ascending whatever the order
\* of the detectors reported.
C14_SortedOutputs ==
  /\ pc = "normalized" => Ascending(IdsIn(signals)) /\ Ascending(IdsIn(evidence))
  /\ pc = "correlated" /\ signals # NoSignals => Ascending(IdsIn(findings))
  /\ pc = "escalated" => Ascending(IdsIn(findings))
  /\ files.evidence.exists => Ascending(IdsIn(files.evidence.content))
  /\ files.output.exists => Ascending(IdsIn(files.output.content.records))
  /\ pc = "done" =>
        /\ AscendingNames(files.manifest.content.detector_list)
        /\ \A n \in DetectorNames :
              Count(files.manifest.content.detector_list, n)
                 = Count(files.detectors, n)

C14_Witness ==
  /\ pc = "done"
  /\ Len(files.detectors) > 1
  /\ ~AscendingNames(files.detectors)

\* "<signal_type>:<subject>:<comma-joined sorted indicators>" of a signal
OwnDedupeKey(sig) ==
  <<sig.signal_type, ":">> \o sig.subject \o <<":">>
     \o Join(SortStrs(sig.indicators), <<",">>)

\* C15: after normalize_signals the dedupe_key of every signal is
\* "<signal_type>:<subject>:<comma-joined sorted indicators>" of the signal's
\* own signal_type, subject and indicators, whether or not the raw signal
\* brought a dedupe_key and whether or not redaction rewrote its indicators;
\* signals equal in these three fields have equal keys.
C15_DedupeKeyPure ==
  pc = "normalized" =>
     /\ \A i \in 1..Len(signals) : signals[i].dedupe_key = OwnDedupeKey(signals[i])
     /\ \A i, j \in 1..Len(signals) :
           /\ signals[i].signal_type = signals[j].signal_type
           /\ signals[i].subject = signals[j].subject
           /\ signals[i].indicators = signals[j].indicators
           => signals[i].dedupe_key = signals[j].dedupe_key

\* C16: the indicators of every signal normalize_signals returns are in
\* ascending order, under every scope, also one that redacts.
C16_IndicatorsSorted ==
  pc = "normalized" =>
     \A i \in 1..Len(signals) : Ascending(signals[i].indicators)

\* C17: store_run called a second time with the same run_id, manifest,
\* signals and findings leaves the three tables exactly as the first call
\* left them.
C17_StoreRunIdempotent ==
  pc = "restored" => db = prev.first

C17_Witness ==
  /\ pc = "restored"
  /\ Len(raw.signals) = 2
  /\ raw.signals[1].id = raw.signals[2].id
  /\ raw.signals[1] # raw.signals[2]
  /\ raw.findings # <<>>
  /\ \E r \in db.signals : r.run_id # raw.run_id
  /\ \E r \in db.runs : r.run_id = raw.run_id /\ r.started_at # FixedNow

\* the tables a completed store_run of the call in raw leaves
CallResult(before) ==
  store_run(before, raw.run_id, raw.manifest, raw.signals, raw.findings)

\* C18: while store_run has not committed, and after it failed or the process
\* stopped before the commit, the tables are as they were before the call; the
\* tables hold all rows of a call or none of them.
C18_AtomicStoreRun ==
  /\ pc \in {"in_tx", "in_tx_again", "aborted"} => db = prev.before
  /\ pc \in {"stored", "restored"} => db = CallResult(prev.before)

C18_Witness ==
  /\ pc = "aborted"
  /\ prev.steps >= 2
  /\ prev.steps < store_run_statements(raw.signals, raw.findings)
  /\ store_run_partial(prev.before, raw.run_id, raw.manifest, raw.signals,
                       raw.findings, prev.steps) # prev.before
  /\ store_run_partial(prev.before, raw.run_id, raw.manifest, raw.signals,
                       raw.findings, prev.steps) # CallResult(prev.before)

PurgeCutoff == FixedNow - prev.arg * TicksPerDay

\* C19: after purge_older_than(d), d > 0, no run started before now - d days
\* is left and no signal or finding row carries the run_id of such a run; the
\* runs started at or after now - d days and the rows with their run_id are
\* unchanged; purge_older_than(0) changes nothing.
C19_RetentionPurge ==
  pc = "purged" =>
     LET before == prev.before
         old == {r.run_id : r \in {x \in before.runs : x.started_at < PurgeCutoff}}
         kept == {r.run_id : r \in {x \in before.runs : x.started_at >= PurgeCutoff}}
     IN IF prev.arg = 0 THEN db = before
        ELSE /\ \A r \in db.runs : r.started_at >= PurgeCutoff
             /\ \A r \in db.signals \cup db.findings : r.run_id \notin old
             /\ {r \in db.runs : r.run_id \in kept}
                   = {r \in before.runs : r.run_id \in kept}
             /\ {r \in db.signals : r.run_id \in kept}
                   = {r \in before.signals : r.run_id \in kept}
             /\ {r \in db.findings : r.run_id \in kept}
                   = {r \in before.findings : r.run_id \in kept}

C19_Witness ==
  /\ pc = "purged"
  /\ prev.arg = 7
  /\ \E r \in db.runs : r.started_at = PurgeCutoff
  /\ \E r \in prev.before.runs :
        /\ r.started_at = PurgeCutoff - 1
        /\ \E x \in prev.before.signals : x.run_id = r.run_id
        /\ \E x \in prev.before.findings : x.run_id = r.run_id
  /\ db.signals # {}

TrendKinds == {"signal_type", "subject", "dedupe_key"}

\* the key of a stored row
StoredKey(kind, r) ==
  CASE kind = "signal_type" -> <<r.signal_type>>
    [] kind = "subject" -> r.subject
    [] kind = "dedupe_key" -> r.dedupe_key

Buckets(kind) ==
  CASE kind = "signal_type" -> trend.by_signal_type
    [] kind = "subject" -> trend.by_subject
    [] kind = "dedupe_key" -> trend.by_dedupe_key

\* the stored signals with the given key and a timestamp in [from, to)
StoredIn(kind, key, from, to) ==
  {r \in db.signals :
     StoredKey(kind, r) = key /\ r.timestamp >= from /\ r.timestamp < to}

\* C20: for each key function trend_report(W) has a bucket for a key iff a
\* stored signal with that key has a timestamp in [now - 2W, now); count is
\* the number of stored signals with the key in [now - W, now), prev_count the
\* number in [now - 2W, now - W), delta their difference; keys are unique and
\* ascending; a key all of whose signals lie in the current window has
\* prev_count 0, delta = count and first_seen_in_window.
C20_TrendBuckets ==
  pc = "reported" =>
     LET now == FixedNow
         w == prev.arg * TicksPerDay
     IN \A kind \in TrendKinds :
           LET B == Buckets(kind)
           IN /\ \A i \in 1..(Len(B) - 1) : StrLess(B[i].key, B[i + 1].key)
              /\ {B[i].key : i \in 1..Len(B)}
                    = {StoredKey(kind, r) :
                         r \in {x \in db.signals :
                                  /\ x.timestamp >= now - 2 * w
                                  /\ x.timestamp < now}}
              /\ \A i \in 1..Len(B) :
                    /\ B[i].count
                          = Cardinality(StoredIn(kind, B[i].key, now - w, now))
                    /\ B[i].prev_count
                          = Cardinality(StoredIn(kind, B[i].key, now - 2 * w,
                                                 now - w))
                    /\ B[i].delta = B[i].count - B[i].prev_count
                    /\ (\A r \in db.signals :
                           StoredKey(kind, r) = B[i].key =>
                              r.timestamp >= now - w /\ r.timestamp < now)
                       => /\ B[i].prev_count = 0
                          /\ B[i].delta = B[i].count
                          /\ B[i].first_seen_in_window

C20_Witness ==
  /\ pc = "reported"
  /\ prev.arg = 7
  /\ \E i \in 1..Len(trend.by_subject) :
        /\ trend.by_subject[i].count > 0
        /\ trend.by_subject[i].prev_count > 0
  /\ \E i \in 1..Len(trend.by_dedupe_key) :
        /\ trend.by_dedupe_key[i].first_seen_in_window
        /\ trend.by_dedupe_key[i].prev_count = 0
  /\ Len(trend.by_signal_type) = 2

----------------------------------------------------------------------------
\* C21: Scope::validate(false) is an error exactly when the scope has neither
\* domains nor brand_terms, or allowed_sources is empty, or allowed_detectors
\* is empty, or store_raw is false with no redact pattern; validate(true) is
\* an error exactly when store_raw is false, there is no redact pattern and
\* the scope has domains or brand_terms.

HasTerms(sc) == sc.domains # <<>> \/ sc.brand_terms # <<>>

Unredacted(sc) == ~sc.privacy.store_raw /\ sc.privacy.redact_patterns = <<>>

C21_ScopeValidation ==
  pc = "validated" =>
    IF cfg.demo_safe
    THEN (prev # Ok) <=> (Unredacted(scope) /\ HasTerms(scope))
    ELSE (prev # Ok) <=> \/ ~HasTerms(scope)
                         \/ scope.allowed_sources = <<>>
                         \/ scope.allowed_detectors = <<>>
                         \/ Unredacted(scope)

\* validate(false) refuses a scope without terms whose allow-lists are given
C21_Witness ==
  /\ pc = "validated"
  /\ ~cfg.demo_safe
  /\ ~HasTerms(scope)
  /\ scope.allowed_sources # <<>>
  /\ scope.allowed_detectors # <<>>
  /\ ~Unredacted(scope)
  /\ prev # Ok

----------------------------------------------------------------------------
\* C22: in a scan or a replay no output file (evidence.jsonl, the signals
\* output, manifest.json) is written before the manifest of the run has been
\* computed.

AnyFileWritten ==
  files.evidence.exists \/ files.output.exists \/ files.manifest.exists

C22_FilesAfterManifest == AnyFileWritten => manifests # <<>>

----------------------------------------------------------------------------
\* C23: a detector executes only if its name is in scope.allowed_detectors,
\* ASCII case ignored; when a requested detector or source is outside the
\* allow-list of the scope (in demo-safe mode: outside typosquat, and fixture
\* and offline), or when no-network is on and a selected detector uses a
\* source other than Offline, the run ends in an error before a detector has
\* run and before a file or a database row is written.

\* the scope the run works with
RunScope == IF cfg.demo_safe THEN sanitize_for_demo(scope) ELSE scope

TyposquatExecuted == cfg.command = "Scan" /\ files.detectors = TyposquatName

RequestOutside ==
  \/ SomeOutside(cfg.detectors, RunScope.allowed_detectors)
  \/ SomeOutside(cfg.sources, RunScope.allowed_sources)
  \/ cfg.demo_safe /\ SomeOutside(cfg.detectors, << <<"typosquat">> >>)
  \/ cfg.demo_safe
     /\ SomeOutside(cfg.sources, << <<"fixture">>, <<"offline">> >>)

TyposquatSelected ==
  AnyIgnoreCase(IF cfg.detectors.some THEN cfg.detectors.val
                ELSE RunScope.allowed_detectors, TyposquatName)

NetworkForbidden ==
  /\ cfg.no_network
  /\ cfg.command = "Scan"
  /\ TyposquatSelected
  /\ \E i \in 1..Len(TyposquatSources) : TyposquatSources[i] # "Offline"

NothingPersisted == ~AnyFileWritten /\ db = EmptyDb

C23_PolicyGate ==
  /\ TyposquatExecuted => AnyIgnoreCase(scope.allowed_detectors, TyposquatName)
  /\ (RequestOutside \/ NetworkForbidden) =>
       /\ pc \in {"invoked", "scan", "error"}
       /\ RequestOutside => pc \in {"invoked", "error"}
       /\ ~TyposquatExecuted
       /\ signals = NoSignals
       /\ NothingPersisted

\* a scan that asks for a detector the scope does not list ends in the error
\* of the gate, with nothing run and nothing written
C23_Witness ==
  /\ pc = "error"
  /\ cfg.command = "Scan"
  /\ ~cfg.demo_safe
  /\ cfg.detectors = Some(<< <<"other">> >>)
  /\ scope.allowed_detectors = << <<"typosquat">> >>
  /\ prev = "detector not allowed by scope"
  /\ ~TyposquatExecuted
  /\ NothingPersisted

----------------------------------------------------------------------------
\* C24: a signal older than 30 days (30 days and any fraction of a day
\* included) leaves the decay step of score_signals with confidence
\* max(20, confidence - 10), the flag decay:temporal exactly once and one
\* decay note in the rationale; a signal of 30 days or less leaves it with
\* confidence, rationale and policy_flags unchanged.

\* the signal as it enters the decay step: defaults and negative keywords done
DecayInput(sig) ==
  LET s1 == IF sig.confidence = 0
            THEN [sig EXCEPT !.confidence = default_confidence(sig.signal_type)]
            ELSE sig
  IN apply_negative_keyword_filter(s1, scope)

DecayOutput(sig) == apply_temporal_decay(DecayInput(sig), now_utc)

DecayFlag == <<"decay:temporal">>

DecayNotes(rationale) == Count(rationale, "policy: temporal decay applied (")

OlderThan30Days(sig) == now_utc - sig.timestamp > 30 * TicksPerDay

C24_TemporalDecay ==
  pc = "scored" =>
     \A i \in 1..Len(signals) :
        LET in == DecayInput(prev[i])
            out == DecayOutput(prev[i])
        IN /\ signals[i] = apply_typosquat_tuning(out, scope)
           /\ IF OlderThan30Days(prev[i])
              THEN /\ out.confidence = Max(20, in.confidence - 10)
                   /\ Count(out.policy_flags, DecayFlag) = 1
                   /\ DecayNotes(out.rationale) = 1
              ELSE /\ out.confidence = in.confidence
                   /\ out.rationale = in.rationale
                   /\ out.policy_flags = in.policy_flags

----------------------------------------------------------------------------
\* C25: a TyposquatDomain signal with a non-empty candidate and an indicator
\* rdap_age_days=N with N > policy.typosquat.old_domain_days, at any position
\* and whatever other rdap_age_days indicators it has, ends score_signals with
\* confidence <= 50, severity at most Medium and the flag
\* prefer_digest:old_domain exactly once; a signal of another type is never
\* given the flag.

OldDomainFlag == <<"prefer_digest:old_domain">>

HasOldDomainIndicator(sig) ==
  \E k \in 1..Len(sig.indicators) :
     /\ RdapAge(sig.indicators[k]).some
     /\ RdapAge(sig.indicators[k]).val > scope.policy.typosquat.old_domain_days

HasCandidate(sig) == sig.indicators # <<>> /\ sig.indicators[1] # <<>>

C25_OldDomainPreference ==
  pc = "scored" =>
     \A i \in 1..Len(signals) :
        /\ (/\ prev[i].signal_type = "TyposquatDomain"
            /\ HasCandidate(prev[i])
            /\ HasOldDomainIndicator(prev[i]))
           => /\ signals[i].confidence <= 50
              /\ signals[i].severity \in {"Low", "Medium"}
              /\ Count(signals[i].policy_flags, OldDomainFlag) = 1
        /\ prev[i].signal_type # "TyposquatDomain"
           => Count(signals[i].policy_flags, OldDomainFlag) = 0

----------------------------------------------------------------------------
\* C26 as stated: a signal whose raw confidence is not zero ends
\* score_signals with a confidence that is at most the raw confidence.
C26_NeverRaised ==
  pc = "scored" =>
     \A i \in 1..Len(signals) :
        prev[i].confidence # 0 =>
           signals[i].confidence <= prev[i].confidence

\* the decay step acts on the signal: it is more than 30 whole days old
Decays(sig) == NumDays(now_utc - sig.timestamp) > 30

\* C26: a signal whose raw confidence is not zero ends score_signals with a
\* confidence that is at most the raw confidence, except that a signal below
\* 20 on which the decay step acts ends with exactly 20, the floor of that
\* step, and carries the flag decay:temporal.
C26_NeverRaisedButToDecayFloor ==
  pc = "scored" =>
     \A i \in 1..Len(signals) :
        prev[i].confidence # 0 =>
           IF prev[i].confidence < 20 /\ Decays(prev[i])
           THEN /\ signals[i].confidence = 20
                /\ Count(signals[i].policy_flags, DecayFlag) = 1
           ELSE signals[i].confidence <= prev[i].confidence

\* a signal of confidence 5 and an age of 31 days leaves scoring with 20
C26_Witness ==
  /\ pc = "scored"
  /\ prev[1].confidence = 5
  /\ Decays(prev[1])
  /\ signals[1].confidence = 20
  /\ Count(signals[1].policy_flags, DecayFlag) = 1

----------------------------------------------------------------------------
\* C27 as stated: store_run(r2, ...) leaves every signal row and every
\* finding row that was stored under another run r1 unchanged and tied to r1,
\* also when the two runs contain signals or findings with the same id.

RowsOfOtherRuns(rows) == {r \in rows : r.run_id # raw.run_id}

C27_RunsIsolated ==
  pc = "stored" =>
     /\ RowsOfOtherRuns(prev.before.signals) = RowsOfOtherRuns(db.signals)
     /\ RowsOfOtherRuns(prev.before.findings) = RowsOfOtherRuns(db.findings)

\* the ids the call in raw writes
CallIds(items) == {items[i].id : i \in 1..Len(items)}

\* the rows of other runs that the call does not write over
Untouched(rows, items) ==
  {r \in RowsOfOtherRuns(rows) : r.id \notin CallIds(items)}

\* every id the call writes has one row, tied to the run of the call
TakenOver(rows, items) ==
  \A id \in CallIds(items) :
     /\ Cardinality({r \in rows : r.id = id}) = 1
     /\ \A r \in rows : r.id = id => r.run_id = raw.run_id

\* C27: store_run(r2, ...) leaves every signal row and every finding row of
\* another run r1 unchanged and tied to r1 unless the call writes a row with
\* the same id; such a row is replaced by the row of the call and is then
\* tied to r2, so that r1 no longer has it.
C27_RunsIsolatedButForSharedIds ==
  pc = "stored" =>
     /\ RowsOfOtherRuns(db.signals) = Untouched(prev.before.signals, raw.signals)
     /\ RowsOfOtherRuns(db.findings)
           = Untouched(prev.before.findings, raw.findings)
     /\ TakenOver(db.signals, raw.signals)
     /\ TakenOver(db.findings, raw.findings)

\* the call takes a signal row of another run over and leaves another one of
\* that kind alone
C27_Witness ==
  /\ pc = "stored"
  /\ \E r \in RowsOfOtherRuns(prev.before.signals) :
        /\ r.id \in CallIds(raw.signals)
        /\ r \notin db.signals
  /\ \E r \in RowsOfOtherRuns(prev.before.signals) :
        /\ r.id \notin CallIds(raw.signals)
        /\ r \in db.signals

----------------------------------------------------------------------------
\* C28 as stated: normalize_signals returns the same ordered signal list and
\* the same ordered evidence list for a raw list and for every permutation of
\* it, also when several raw signals receive the same id.

SameAsPermuted ==
  /\ prev.output.signals = signals
  /\ prev.output.evidence = evidence

C28_InputOrderIndependence == pc = "permuted" => SameAsPermuted

\* rows with the same id are the same row
NoConflictingIds(rows) ==
  \A i, j \in 1..Len(rows) : rows[i].id = rows[j].id => rows[i] = rows[j]

\* C28: normalize_signals returns the same ordered signal list and the same
\* ordered evidence list for a raw list and for every permutation of it,
\* provided that normalized signals with the same id are equal and evidence
\* rows with the same id are equal.
C28_InputOrderIndependenceOfDistinctIds ==
  (pc = "permuted" /\ NoConflictingIds(signals) /\ NoConflictingIds(evidence))
     => SameAsPermuted

\* two raw signals with different ids, normalized in both orders
C28_Witness ==
  /\ pc = "permuted"
  /\ Len(raw) = 2
  /\ prev.input # raw
  /\ NoConflictingIds(signals)
  /\ NoConflictingIds(evidence)
  /\ signals[1].id # signals[2].id
  /\ evidence[1].id # evidence[2].id
  /\ SameAsPermuted

----------------------------------------------------------------------------
\* C29: over signals with pairwise distinct ids, the signals list of every
\* finding of correlate_signals holds each contributing signal id at most
\* once, also when a signal qualifies for the rule in two roles.

DistinctIds(sigs) ==
  \A i, j \in 1..Len(sigs) : sigs[i].id = sigs[j].id => i = j

C29_NoDuplicateContributors ==
  (pc = "correlated" /\ DistinctIds(signals)) =>
     \A k \in 1..Len(findings) :
        \A id \in Range(findings[k].signals) :
           Count(findings[k].signals, id) = 1

HasCandidateTypo(x) ==
  /\ x.signal_type = "TyposquatDomain"
  /\ x.indicators # <<>>
  /\ x.indicators[1] # <<>>

\* C30: whenever correlate_signals emits an R1 finding the subject group
\* holds a NewCert signal, so every TyposquatDomain signal of the subject
\* with a non-empty first indicator is among the finding's signals, generic
\* only or not, and the finding's suppression_reason has no "generic-token".
C30_CorroborationAccompaniesR1 ==
  pc = "correlated" =>
     \A i \in 1..Len(findings) : \A s \in BatchSubjects :
        IsR1For(findings[i], s) =>
           LET g == GroupOf(s)
           IN /\ \E k \in 1..Len(g) : g[k].signal_type = "NewCert"
              /\ \A k \in 1..Len(g) :
                    HasCandidateTypo(g[k]) =>
                       g[k].id \in Range(findings[i].signals)
              /\ findings[i].suppression_reason.some =>
                    ~Contains(findings[i].suppression_reason.val,
                              <<"generic-token">>)

\* an R1 finding with a generic-only typosquat among its signals that the
\* scorer had marked with the generic-token reason
C30_Witness ==
  /\ pc = "correlated"
  /\ \E i \in 1..Len(findings) : \E s \in BatchSubjects :
        /\ IsR1For(findings[i], s)
        /\ \E k \in 1..Len(GroupOf(s)) :
              LET x == GroupOf(s)[k]
              IN /\ HasCandidateTypo(x)
                 /\ is_generic_typosquat(x.subject, x.indicators[1])
                 /\ x.suppression_reason.some
                 /\ Contains(x.suppression_reason.val, <<"generic-token">>)
                 /\ x.id \in Range(findings[i].signals)

====
